---- MODULE Spec2Model ----
(***************************************************************************)
(* Model of the request authenticators of fs-access-api                    *)
(* (internal/adapters/out/security): HMACAuthenticator, BearerAuthenticator*)
(* and MultiAuthenticator, together with the request body stream they      *)
(* read and restore.                                                       *)
(*                                                                         *)
(* Strings are sequences of one-character symbols where the code looks     *)
(* inside them (hex secrets); SHA-256 and HMAC-SHA256 are collision-free   *)
(* symbolic values (a digest is named by the bytes it was computed from, a *)
(* MAC by its effective key and message).                                  *)
(***************************************************************************)
EXTENDS Integers, Sequences, FiniteSets, TLC

\* ---------------------------------------------------------------- bounds
\* largest value of the wall clock explored (time.Duration arithmetic is far
\* from its int64 limits at these values)
MaxNow == 2

\* ------------------------------------------------------ program constants
\* win = 5 * time.Minute when the configured window is not positive (seconds)
DefaultWindow == 300

hmacScheme == "HMAC"
bearerScheme == "Bearer"

\* error values returned by the Verify methods ("nil" is Go's nil error)
Nil == "nil"
ErrMissingHeaders == "missing auth headers"
ErrUnknownKey == "unknown api key"
ErrInvalidScheme == "invalid auth scheme"
ErrBadTimestamp == "bad timestamp"
ErrWindow == "timestamp outside allowed window"
ErrBodyRead == "body read error"
ErrBodyHash == "body hash mismatch"
ErrSigEncoding == "bad signature encoding"
ErrBadSignature == "bad signature"
ErrNotVerified == "not verified"
ErrMissingAuthz == "missing 'Authorization' header"
ErrNotSupported == "authorization scheme not supported"

\* ------------------------------------------------------------ hex strings
HexDigits == {"0", "1", "a", "A"}

HexVal(c) == CASE c = "0" -> 0
               [] c = "1" -> 1
               [] c = "a" -> 10
               [] c = "A" -> 10
               [] OTHER -> -1

RECURSIVE TrimLeft(_)
TrimLeft(s) == IF s # <<>> /\ Head(s) = " " THEN TrimLeft(Tail(s)) ELSE s

RECURSIVE TrimRight(_)
TrimRight(s) ==
    IF s # <<>> /\ s[Len(s)] = " " THEN TrimRight(SubSeq(s, 1, Len(s) - 1)) ELSE s

\* strings.TrimSpace
TrimSpace(s) == TrimRight(TrimLeft(s))

\* hex.DecodeString: an odd length or a non-hex character is an error
DecodeString(s) ==
    IF Len(s) % 2 = 1 \/ \E i \in 1..Len(s) : s[i] \notin HexDigits
    THEN [err |-> TRUE, bytes |-> <<>>]
    ELSE [err |-> FALSE,
          bytes |-> [i \in 1..(Len(s) \div 2) |->
                        16 * HexVal(s[2 * i - 1]) + HexVal(s[2 * i])]]

\* ------------------------------------------------------------ construction
\* NewHMACAuthenticator: window default, every secret trimmed and decoded;
\* the first offending key aborts construction (map order is unspecified, so
\* any offending key may be the one named).
HMACWindow(cfg) == IF cfg.WindowSeconds <= 0 THEN DefaultWindow ELSE cfg.WindowSeconds

EmptyKeys(cfg) == {k \in DOMAIN cfg.AccessKeys : TrimSpace(cfg.AccessKeys[k]) = <<>>}

BadHexKeys(cfg) == {k \in DOMAIN cfg.AccessKeys :
                      /\ TrimSpace(cfg.AccessKeys[k]) # <<>>
                      /\ DecodeString(TrimSpace(cfg.AccessKeys[k])).err}

NoAuth == [ok |-> FALSE, window |-> 0, accessSecrets |-> <<>>]

NewHMACAuthenticatorSkipBad(cfg) ==
    [ok |-> TRUE,
     window |-> HMACWindow(cfg),
     accessSecrets |-> [k \in DOMAIN cfg.AccessKeys \ (EmptyKeys(cfg) \cup BadHexKeys(cfg)) |->
                           DecodeString(TrimSpace(cfg.AccessKeys[k])).bytes]]

NewHMACAuthenticator(cfg) ==
    IF EmptyKeys(cfg) \cup BadHexKeys(cfg) # {}
    THEN NoAuth
    ELSE [ok |-> TRUE,
          window |-> HMACWindow(cfg),
          accessSecrets |-> [k \in DOMAIN cfg.AccessKeys |->
                                DecodeString(TrimSpace(cfg.AccessKeys[k])).bytes]]

NewBearerAuthenticator(cfg) ==
    IF EmptyKeys(cfg) \cup BadHexKeys(cfg) # {}
    THEN NoAuth
    ELSE [ok |-> TRUE,
          window |-> 0,
          accessSecrets |-> [k \in DOMAIN cfg.AccessKeys |->
                                TrimSpace(cfg.AccessKeys[k])]]

\* NewMultiAuthenticator: one authenticator per enabled name that is "hmac"
\* or "bearer"; other names are skipped; a failing constructor fails the whole
\* construction.
EnabledNames(cfg) == {cfg.EnabledAuthenticators[i] : i \in 1..Len(cfg.EnabledAuthenticators)}
                         \cap {"hmac", "bearer"}

NewMultiAuthenticator(cfg) ==
    IF EnabledNames(cfg) # {} /\ EmptyKeys(cfg) \cup BadHexKeys(cfg) # {}
    THEN [ok |-> FALSE, authenticators |-> {}]
    ELSE [ok |-> TRUE, authenticators |-> EnabledNames(cfg)]

\* the error value a constructor returns: its text names one key-id; wrap is
\* the prefix NewMultiAuthenticator puts in front of it
NoErr == [kind |-> "nil", key |-> "", wrap |-> ""]

\* the errors the range over AccessKeys can end with: the first offending key
\* met aborts the loop, and the order of a map range is unspecified
SecretErrors(cfg) ==
    {[kind |-> "empty secret for key", key |-> k, wrap |-> ""] : k \in EmptyKeys(cfg)}
      \cup {[kind |-> "invalid hex secret for key", key |-> k, wrap |-> ""] :
                k \in BadHexKeys(cfg)}

ConstructorErrors(cfg) == IF SecretErrors(cfg) = {} THEN {NoErr} ELSE SecretErrors(cfg)

\* the enabled names in list order that build an authenticator
RECURSIVE BuiltNames(_)
BuiltNames(names) ==
    IF names = <<>> THEN <<>>
    ELSE IF Head(names) \in {"hmac", "bearer"} THEN <<Head(names)>> \o BuiltNames(Tail(names))
    ELSE BuiltNames(Tail(names))

\* NewMultiAuthenticator wraps the error of the first constructor it calls
MultiConstructorErrors(cfg) ==
    IF BuiltNames(cfg.EnabledAuthenticators) = <<>> THEN {NoErr}
    ELSE {[e EXCEPT !.wrap = IF e = NoErr THEN ""
                              ELSE IF Head(BuiltNames(cfg.EnabledAuthenticators)) = "hmac"
                              THEN "can't create HMAC authenticator"
                              ELSE "can't create Bearer authenticator"] :
             e \in ConstructorErrors(cfg)}

\* ---------------------------------------------------------------- requests
\* A request body (io.ReadCloser): data is everything the reader would
\* deliver, pos how much of it has been consumed, failAt = -1 for a reader that
\* ends with io.EOF, or the number of bytes after which Read returns an error.
NilBody == [nil |-> TRUE, data |-> <<>>, pos |-> 0, failAt |-> -1]

NewReader(b) == [nil |-> FALSE, data |-> b, pos |-> 0, failAt |-> -1]

\* io.ReadAll: reads until EOF or the first error; the reader keeps what it
\* has delivered as consumed.
ReadAll(body) ==
    IF body.failAt # -1
    THEN [err |-> TRUE,
          b |-> SubSeq(body.data, body.pos + 1, body.failAt),
          body |-> [body EXCEPT !.pos = body.failAt]]
    ELSE [err |-> FALSE,
          b |-> SubSeq(body.data, body.pos + 1, Len(body.data)),
          body |-> [body EXCEPT !.pos = Len(body.data)]]

\* the bytes a reader of the body would still get (without error)
Remaining(body) == SubSeq(body.data, body.pos + 1, Len(body.data))

\* hex(sha256(b)): lower-case hex text of the digest of b
Sha256Hex(b) == [kind |-> "digest", of |-> b, upper |-> FALSE]

NoSha == [kind |-> "none", of |-> <<>>, upper |-> FALSE]
JunkSha == [kind |-> "junk", of |-> <<>>, upper |-> FALSE]

\* strings.EqualFold on two header-style values: letter case is ignored
EqualFold(a, b) == a.kind = b.kind /\ a.of = b.of

\* X-Timestamp values: absent, not RFC3339, or an RFC3339 text of instant t
\* (the same instant has more than one text: "Z" and "+00:00" offsets)
NoTs == [kind |-> "none", t |-> 0, form |-> ""]
BadTs == [kind |-> "bad", t |-> 0, form |-> ""]
Rfc3339(t, form) == [kind |-> "rfc3339", t |-> t, form |-> form]

\* time.Parse(time.RFC3339, tsStr)
ParseTime(tsStr) == [err |-> tsStr.kind # "rfc3339", t |-> tsStr.t]

\* Authorization values: a leading scheme part and the rest of the value.
\* cred kinds: "none" (nothing), "mac" (hex text of an HMAC-SHA256 value),
\* "hex" (literal hex-ish characters), "junk" (text that is not hex).
NoCred == [kind |-> "none", key |-> <<>>, msg |-> <<>>, upper |-> FALSE, chars |-> <<>>]
JunkCred == [kind |-> "junk", key |-> <<>>, msg |-> <<>>, upper |-> FALSE, chars |-> <<"g">>]
HexCred(chars) == [kind |-> "hex", key |-> <<>>, msg |-> <<>>, upper |-> FALSE, chars |-> chars]
MacCred(mac, upper) ==
    [kind |-> "mac", key |-> mac.key, msg |-> mac.msg, upper |-> upper, chars |-> <<>>]

Authz(prefix, cred) == [prefix |-> prefix, cred |-> cred]
NoAuthz == Authz("", NoCred)

\* strings.HasPrefix(authz, scheme + " ")
HasPrefix(authz, p) == authz.prefix = p

\* strings.TrimPrefix(authz, scheme + " "), called once the prefix is known
\* to be there
TrimPrefix(authz, p) == authz.cred

\* ------------------------------------------------------------ HMAC-SHA256
\* crypto/hmac pads a key shorter than the block with zero bytes, so keys
\* that differ only in trailing zero bytes are the same key.
RECURSIVE NormKey(_)
NormKey(k) == IF k # <<>> /\ k[Len(k)] = 0 THEN NormKey(SubSeq(k, 1, Len(k) - 1)) ELSE k

HmacSha256(secret, msg) == [key |-> NormKey(secret), msg |-> msg]

\* hex.DecodeString(sigHex) of the signature text, as the MAC it denotes;
\* literal hex characters decode to bytes that are no HMAC of anything
NoMac == [key |-> <<>>, msg |-> <<>>]
DecodeSig(cred) ==
    CASE cred.kind = "mac" -> [err |-> FALSE, mac |-> [key |-> cred.key, msg |-> cred.msg]]
      [] cred.kind = "none" -> [err |-> FALSE, mac |-> NoMac]
      [] cred.kind = "hex" -> [err |-> DecodeString(cred.chars).err, mac |-> NoMac]
      [] OTHER -> [err |-> TRUE, mac |-> NoMac]

\* ------------------------------------------------------- HMACAuthenticator
\* the header is absent or empty (Header.Get returns "")
AuthzEmpty(authz) == authz = NoAuthz

HMACSupports(r) == HasPrefix(r.authz, "HMAC ")

\* apiKey == "" || authz == "" || tsStr == "" || bodySHA == ""
\* (faulty variant: X-Content-Sha256 is not required)
HMACMissingNoBodySha(r) ==
    r.apiKey = "" \/ AuthzEmpty(r.authz) \/ r.ts = NoTs

HMACMissingHeaders(r) ==
    r.apiKey = "" \/ AuthzEmpty(r.authz) \/ r.ts = NoTs \/ r.bodySHA = NoSha

\* d > s.window || d < -s.window
\* (faulty variant: the boundary itself is rejected)
WindowExceededStrict(d, w) == d >= w \/ d <= -w

WindowExceeded(d, w) == d > w \/ d < -w

\* bodyHashAndRestore: read the whole body, put the bytes read back as a
\* fresh reader, return the hex digest; on a read error nothing is restored.
\* (faulty variants: the body is left consumed; the bytes are put back twice)
bodyHashNoRestore(body) ==
    IF body.nil
    THEN [err |-> FALSE, hash |-> Sha256Hex(<<>>), body |-> body]
    ELSE LET rd == ReadAll(body)
         IN  [err |-> rd.err, hash |-> IF rd.err THEN NoSha ELSE Sha256Hex(rd.b),
              body |-> rd.body]

bodyHashRestoreTwice(body) ==
    IF body.nil
    THEN [err |-> FALSE, hash |-> Sha256Hex(<<>>), body |-> body]
    ELSE LET rd == ReadAll(body)
         IN  IF rd.err
             THEN [err |-> TRUE, hash |-> NoSha, body |-> rd.body]
             ELSE [err |-> FALSE, hash |-> Sha256Hex(rd.b),
                   body |-> NewReader(rd.b \o rd.b)]

bodyHashAndRestore(body) ==
    IF body.nil
    THEN [err |-> FALSE, hash |-> Sha256Hex(<<>>), body |-> body]
    ELSE LET rd == ReadAll(body)
         IN  IF rd.err
             THEN [err |-> TRUE, hash |-> NoSha, body |-> rd.body]
             ELSE [err |-> FALSE, hash |-> Sha256Hex(rd.b), body |-> NewReader(rd.b)]

\* r.URL.EscapedPath(), plus "?" + RawQuery when the query is not empty
PathWithQuery(url) ==
    IF url.query # "" THEN <<url.path, "?", url.query>> ELSE <<url.path>>

\* strings.Join({method, pathWithQuery, tsStr, localHash}, "\n")
\* (faulty variant: the method is not signed)
CanonicalNoMethod(r, localHash) == <<"", PathWithQuery(r.url), r.ts, localHash>>

Canonical(r, localHash) == <<r.method, PathWithQuery(r.url), r.ts, localHash>>

\* hmac.Equal(provided, expected)
\* (faulty variant: the path is not bound into the comparison)
HmacEqualIgnoringPath(provided, expected) ==
    /\ provided.key = expected.key
    /\ provided.msg # <<>>
    /\ [provided.msg EXCEPT ![2] = <<>>] = [expected.msg EXCEPT ![2] = <<>>]

HmacEqual(provided, expected) == provided = expected

\* (faulty variant of Verify: the body is read and compared before the
\* timestamp is looked at)
HMACVerifyBodyFirst(auth, r, clock) ==
    LET keep(e) == [err |-> e, body |-> r.body]
        sigHex  == TrimPrefix(r.authz, "HMAC ")
        ts      == ParseTime(r.ts)
        d       == clock - ts.t
        bh      == bodyHashAndRestore(r.body)
        expected == HmacSha256(auth.accessSecrets[r.apiKey], Canonical(r, bh.hash))
        provided == DecodeSig(sigHex)
        after(e) == [err |-> e, body |-> bh.body]
    IN  IF HMACMissingHeaders(r) THEN keep(ErrMissingHeaders)
        ELSE IF r.apiKey \notin DOMAIN auth.accessSecrets THEN keep(ErrUnknownKey)
        ELSE IF ~HasPrefix(r.authz, "HMAC ") THEN keep(ErrInvalidScheme)
        ELSE IF bh.err THEN after(ErrBodyRead)
        ELSE IF ~EqualFold(r.bodySHA, bh.hash) THEN after(ErrBodyHash)
        ELSE IF ts.err THEN after(ErrBadTimestamp)
        ELSE IF WindowExceeded(d, auth.window) THEN after(ErrWindow)
        ELSE IF provided.err THEN after(ErrSigEncoding)
        ELSE IF ~HmacEqual(provided.mac, expected) THEN after(ErrBadSignature)
        ELSE after(Nil)

\* HMACAuthenticator.Verify: the error returned and the request body it
\* leaves behind
HMACVerify(auth, r, clock) ==
    LET keep(e) == [err |-> e, body |-> r.body]
        sigHex  == TrimPrefix(r.authz, "HMAC ")
        ts      == ParseTime(r.ts)
        d       == clock - ts.t
        bh      == bodyHashAndRestore(r.body)
        expected == HmacSha256(auth.accessSecrets[r.apiKey], Canonical(r, bh.hash))
        provided == DecodeSig(sigHex)
        after(e) == [err |-> e, body |-> bh.body]
    IN  IF HMACMissingHeaders(r) THEN keep(ErrMissingHeaders)
        ELSE IF r.apiKey \notin DOMAIN auth.accessSecrets THEN keep(ErrUnknownKey)
        ELSE IF ~HasPrefix(r.authz, "HMAC ") THEN keep(ErrInvalidScheme)
        ELSE IF ts.err THEN keep(ErrBadTimestamp)
        ELSE IF WindowExceeded(d, auth.window) THEN keep(ErrWindow)
        ELSE IF bh.err THEN after(ErrBodyRead)
        ELSE IF ~EqualFold(r.bodySHA, bh.hash) THEN after(ErrBodyHash)
        ELSE IF provided.err THEN after(ErrSigEncoding)
        ELSE IF ~HmacEqual(provided.mac, expected) THEN after(ErrBadSignature)
        ELSE after(Nil)

\* ----------------------------------------------------- BearerAuthenticator
\* (faulty variant: any non-empty Authorization is taken)
BearerSupportsAnyScheme(r) == ~AuthzEmpty(r.authz)

BearerSupports(r) == HasPrefix(r.authz, "Bearer ")

\* sigHex != secretHex is Go string inequality: byte for byte
\* (faulty variant: the decoded bytes are compared, so letter case is ignored)
SameTextFold(cred, secretHex) ==
    /\ cred.kind = "hex"
    /\ ~DecodeString(cred.chars).err
    /\ DecodeString(cred.chars).bytes = DecodeString(secretHex).bytes

SameText(cred, secretHex) == cred.kind = "hex" /\ cred.chars = secretHex

\* BearerAuthenticator.Verify; the body is never read
BearerVerify(auth, r) ==
    LET keep(e) == [err |-> e, body |-> r.body]
        sigHex  == TrimPrefix(r.authz, "Bearer ")
    IN  IF r.apiKey = "" \/ AuthzEmpty(r.authz) THEN keep(ErrMissingHeaders)
        ELSE IF r.apiKey \notin DOMAIN auth.accessSecrets THEN keep(ErrUnknownKey)
        ELSE IF ~HasPrefix(r.authz, "Bearer ") THEN keep(ErrInvalidScheme)
        ELSE IF ~SameText(sigHex, auth.accessSecrets[r.apiKey]) THEN keep(ErrNotVerified)
        ELSE keep(Nil)

\* ------------------------------------------------------ MultiAuthenticator
\* the authenticators map: name -> authenticator built from the same config
MultiAuthenticators(cfg) ==
    [n \in EnabledNames(cfg) |->
        IF n = "hmac" THEN NewHMACAuthenticator(cfg) ELSE NewBearerAuthenticator(cfg)]

\* dynamic dispatch on the held authenticator
AuthSupports(name, r) == IF name = "hmac" THEN HMACSupports(r) ELSE BearerSupports(r)

AuthVerify(name, auth, r, clock) ==
    IF name = "hmac" THEN HMACVerify(auth, r, clock) ELSE BearerVerify(auth, r)

\* every order in which `range s.authenticators` may visit the map
Orders(names) ==
    {o \in UNION {[1..n -> names] : n \in {Cardinality(names)}} :
        \A i, j \in 1..Len(o) : i # j => o[i] # o[j]}

\* MultiAuthenticator.Supports
MultiSupports(auths, r) == \E n \in DOMAIN auths : AuthSupports(n, r)

\* position of the first authenticator in the order that supports r, or 0
FirstSupporting(order, r) ==
    LET hits == {i \in 1..Len(order) : AuthSupports(order[i], r)}
    IN  IF hits = {} THEN 0 ELSE CHOOSE i \in hits : \A j \in hits : i <= j

\* MultiAuthenticator.Verify for one iteration order: the error, the body
\* left behind, and the authenticators whose Supports was called
\* (faulty variant: the empty-header check is skipped)
MultiVerifyNoHeaderCheck(auths, r, clock, order) ==
    LET f == FirstSupporting(order, r)
    IN  IF f = 0
        THEN [err |-> ErrNotSupported, body |-> r.body, consulted |-> order]
        ELSE LET v == AuthVerify(order[f], auths[order[f]], r, clock)
             IN  [err |-> v.err, body |-> v.body, consulted |-> SubSeq(order, 1, f)]

MultiVerify(auths, r, clock, order) ==
    LET f == FirstSupporting(order, r)
    IN  IF AuthzEmpty(r.authz)
        THEN [err |-> ErrMissingAuthz, body |-> r.body, consulted |-> <<>>]
        ELSE IF f = 0
        THEN [err |-> ErrNotSupported, body |-> r.body, consulted |-> order]
        ELSE LET v == AuthVerify(order[f], auths[order[f]], r, clock)
             IN  [err |-> v.err, body |-> v.body, consulted |-> SubSeq(order, 1, f)]

\* ------------------------------------------------------------------ hasher
\* Strings of the hasher are sequences of one-character strings.

\* HashAlgo: the text before and after the dash of "crypt-md5", "raw-sha1", ...
AlgoCryptMD5 == <<"crypt-", "md5">>
AlgoCryptSHA256 == <<"crypt-", "sha256">>
AlgoCryptSHA512 == <<"crypt-", "sha512">>
AlgoRawMD5 == <<"raw-", "md5">>
AlgoRawSHA1 == <<"raw-", "sha1">>
AlgoRawSHA256 == <<"raw-", "sha256">>
AlgoRawSHA512 == <<"raw-", "sha512">>
NoAlgo == <<"", "">>

SupportedAlgorithms ==
    {AlgoCryptMD5, AlgoCryptSHA256, AlgoCryptSHA512,
     AlgoRawMD5, AlgoRawSHA1, AlgoRawSHA256, AlgoRawSHA512}

\* HashAlgo.IsCrypt: strings.HasPrefix(string(a), "crypt-")
IsCryptNever(a) == FALSE

IsCrypt(a) == a[1] = "crypt-"

ErrUnsupportedAlgorithm == "unsupported algorithm"
ErrRounds == "rounds must be positive between 1000 and 999999999"
ErrSaltLen == "salt length must be positive and <= 16"
ErrRandom == "random source failed"

MinRounds == 1000
MaxRounds == 1000000
MaxSaltLen == 16
DefaultRounds == 5000
DefaultSaltLen == 16

cryptAlphabet ==
    <<".", "/", "0", "1", "2", "3", "4", "5", "6", "7", "8", "9",
      "A", "B", "C", "D", "E", "F", "G", "H", "I", "J", "K", "L", "M",
      "N", "O", "P", "Q", "R", "S", "T", "U", "V", "W", "X", "Y", "Z",
      "a", "b", "c", "d", "e", "f", "g", "h", "i", "j", "k", "l", "m",
      "n", "o", "p", "q", "r", "s", "t", "u", "v", "w", "x", "y", "z">>

validateParams(rounds, saltLen) ==
    IF rounds < MinRounds \/ rounds > MaxRounds THEN ErrRounds
    ELSE IF saltLen <= 0 \/ saltLen > MaxSaltLen THEN ErrSaltLen
    ELSE Nil

\* The random source: the bytes it delivers, repeated as often as needed, or
\* a source whose Read fails. io.ReadFull(rng, buf) fills all n bytes or fails.
ReadFull(rng, n) ==
    IF rng.fail THEN [err |-> TRUE, buf |-> <<>>]
    ELSE [err |-> FALSE, buf |-> [i \in 1..n |-> rng.bytes[((i - 1) % Len(rng.bytes)) + 1]]]

\* randomSalt: every byte picks a character of the crypt alphabet
randomSalt(n, rng) ==
    LET rd == ReadFull(rng, n)
    IN  IF rd.err THEN [err |-> ErrRandom, salt |-> <<>>]
        ELSE [err |-> Nil,
              salt |-> [i \in 1..n |-> cryptAlphabet[(rd.buf[i] % Len(cryptAlphabet)) + 1]]]

\* fmt's %d of a non-negative int
DigitChars == <<"0", "1", "2", "3", "4", "5", "6", "7", "8", "9">>

RECURSIVE Itoa(_)
Itoa(n) == IF n < 10 THEN <<DigitChars[n + 1]>> ELSE Itoa(n \div 10) \o <<DigitChars[(n % 10) + 1]>>

roundsTag == <<"r", "o", "u", "n", "d", "s", "=">>

\* a prepareSaltSpec that draws the salt before it validates the parameters
prepareSaltSpecSaltFirst(rr, algId, rounds, saltLen) ==
    LET rs == randomSalt(IF saltLen < 0 THEN 0 ELSE saltLen, rr)
    IN  IF rs.err # Nil
        THEN [err |-> rs.err, saltSpec |-> <<>>, salt |-> <<>>, read |-> TRUE]
        ELSE IF validateParams(rounds, saltLen) # Nil
        THEN [err |-> validateParams(rounds, saltLen), saltSpec |-> <<>>, salt |-> <<>>,
              read |-> TRUE]
        ELSE [err |-> Nil,
              saltSpec |-> <<"$">> \o Itoa(algId) \o <<"$">> \o roundsTag \o Itoa(rounds)
                              \o <<"$">> \o rs.salt,
              salt |-> rs.salt, read |-> TRUE]

\* prepareSaltSpec: "$%d$rounds=%d$%s"; read tells whether the random source
\* has been read
prepareSaltSpec(rr, algId, rounds, saltLen) ==
    LET rs == randomSalt(saltLen, rr)
    IN  IF validateParams(rounds, saltLen) # Nil
        THEN [err |-> validateParams(rounds, saltLen), saltSpec |-> <<>>, salt |-> <<>>,
              read |-> FALSE]
        ELSE IF rs.err # Nil
        THEN [err |-> rs.err, saltSpec |-> <<>>, salt |-> <<>>, read |-> TRUE]
        ELSE [err |-> Nil,
              saltSpec |-> <<"$">> \o Itoa(algId) \o <<"$">> \o roundsTag \o Itoa(rounds)
                              \o <<"$">> \o rs.salt,
              salt |-> rs.salt, read |-> TRUE]

\* strings.HasPrefix, strings.Split and strings.ToLower on character sequences
StrHasPrefix(s, p) == Len(s) >= Len(p) /\ SubSeq(s, 1, Len(p)) = p

RECURSIVE Split(_, _)
Split(s, sep) ==
    LET hits == {i \in 1..Len(s) : s[i] = sep}
        i    == CHOOSE i \in hits : \A j \in hits : i <= j
    IN  IF hits = {} THEN <<s>>
        ELSE <<SubSeq(s, 1, i - 1)>> \o Split(SubSeq(s, i + 1, Len(s)), sep)

ToLowerChar(c) ==
    IF \E i \in 13..38 : cryptAlphabet[i] = c
    THEN cryptAlphabet[(CHOOSE i \in 13..38 : cryptAlphabet[i] = c) + 26]
    ELSE c

ToLower(s) == [i \in 1..Len(s) |-> ToLowerChar(s[i])]

ToUpperChar(c) ==
    IF \E i \in 39..64 : cryptAlphabet[i] = c
    THEN cryptAlphabet[(CHOOSE i \in 39..64 : cryptAlphabet[i] = c) - 26]
    ELSE c

ToUpper(s) == [i \in 1..Len(s) |-> ToUpperChar(s[i])]

\* strconv.ParseInt of a decimal text
RECURSIVE DigitsValue(_)
DigitsValue(s) ==
    IF s = <<>> THEN 0
    ELSE 10 * DigitsValue(SubSeq(s, 1, Len(s) - 1))
           + (CHOOSE d \in 0..9 : DigitChars[d + 1] = s[Len(s)])

ParseInt(s) ==
    IF s = <<>> \/ \E i \in 1..Len(s) : \A d \in 1..10 : DigitChars[d] # s[i]
    THEN [err |-> TRUE, n |-> 0]
    ELSE [err |-> FALSE, n |-> DigitsValue(s)]

\* ----- the crypt(3) routines of the imported library (md5_crypt,
\* sha256_crypt, sha512_crypt). The digest of a key under a salt is written as
\* the text key|salt|rounds|id: equal exactly when all four are equal.
ErrSaltPrefix == "invalid magic prefix"
ErrSaltFormat == "invalid salt format"
ErrSaltRounds == "invalid rounds"
ErrKeyMismatch == "hashed value is not the hash of the given password"

LibRoundsMin == 1000
LibRoundsMax == 999999999
LibRoundsDefault == 5000
ShaSaltLenMax == 16
Md5SaltLenMax == 8

Truncate(s, n) == IF Len(s) > n THEN SubSeq(s, 1, n) ELSE s

CryptDigest(id, key, salt, rounds) ==
    key \o <<"|">> \o salt \o <<"|">> \o Itoa(rounds) \o <<"|">> \o Itoa(id)

\* SHA-crypt: $id$[rounds=N$]salt[$digest]; the rounds are clamped, the salt is
\* cut at 16 characters, rounds=N is written back only if it was given.
\* (The answer to a text that ends with the rounds token is not part of the
\* model; no such text is among the inputs.)
ShaCryptGenerate(id, key, salt) ==
    LET magic     == <<"$">> \o Itoa(id) \o <<"$">>
        toks      == Split(salt, "$")
        hasRounds == StrHasPrefix(toks[3], roundsTag)
        pr        == ParseInt(SubSeq(toks[3], Len(roundsTag) + 1, Len(toks[3])))
        rounds    == IF ~hasRounds THEN LibRoundsDefault
                     ELSE IF pr.n < LibRoundsMin THEN LibRoundsMin
                     ELSE IF pr.n > LibRoundsMax THEN LibRoundsMax ELSE pr.n
        slt       == Truncate(IF hasRounds THEN toks[4] ELSE toks[3], ShaSaltLenMax)
    IN  IF ~StrHasPrefix(salt, magic) THEN [err |-> ErrSaltPrefix, hash |-> <<>>]
        ELSE IF Len(toks) < 3 THEN [err |-> ErrSaltFormat, hash |-> <<>>]
        ELSE IF hasRounds /\ pr.err THEN [err |-> ErrSaltRounds, hash |-> <<>>]
        ELSE IF hasRounds /\ Len(toks) < 4 THEN [err |-> ErrSaltFormat, hash |-> <<>>]
        ELSE [err |-> Nil,
              hash |-> magic \o (IF hasRounds THEN roundsTag \o Itoa(rounds) \o <<"$">>
                                 ELSE <<>>)
                         \o slt \o <<"$">> \o CryptDigest(id, key, slt, rounds)]

\* MD5-crypt has no rounds: the salt is what stands between "$1$" and the next
\* "$", cut at 8 characters
Md5CryptGenerate(key, salt) ==
    LET magic == <<"$", "1", "$">>
        toks  == Split(salt, "$")
        slt   == Truncate(toks[3], Md5SaltLenMax)
    IN  IF ~StrHasPrefix(salt, magic) THEN [err |-> ErrSaltPrefix, hash |-> <<>>]
        ELSE IF Len(toks) < 3 THEN [err |-> ErrSaltFormat, hash |-> <<>>]
        ELSE [err |-> Nil,
              hash |-> magic \o slt \o <<"$">> \o CryptDigest(1, key, slt, 0)]

CrypterGenerate(id, key, salt) ==
    IF id = 1 THEN Md5CryptGenerate(key, salt) ELSE ShaCryptGenerate(id, key, salt)

\* Crypter.Verify: generate with the stored hash as the salt spec and compare
CrypterVerify(id, hashedKey, key) ==
    LET g == CrypterGenerate(id, key, hashedKey)
    IN  IF g.err # Nil THEN g.err
        ELSE IF g.hash # hashedKey THEN ErrKeyMismatch ELSE Nil

\* ----- DetectHashAlgo
HexLenMD5 == 32
HexLenSHA1 == 40
HexLenSHA256 == 64
HexLenSHA512 == 128

\* isHexLen: exactly n characters, each 0-9 or a-f
\* a length test that lets longer hex text pass
isHexLenAtLeast(s, n) ==
    /\ Len(s) >= n
    /\ \A i \in 1..Len(s) :
          \/ \E d \in 1..10 : DigitChars[d] = s[i]
          \/ s[i] \in {"a", "b", "c", "d", "e", "f"}

isHexLen(s, n) ==
    /\ Len(s) = n
    /\ \A i \in 1..Len(s) :
          \/ \E d \in 1..10 : DigitChars[d] = s[i]
          \/ s[i] \in {"a", "b", "c", "d", "e", "f"}

DetectHashAlgo(hashed) ==
    LET t  == TrimSpace(hashed)
        ls == ToLower(t)
    IN  IF StrHasPrefix(t, <<"$", "6", "$">>) THEN [alg |-> AlgoCryptSHA512, err |-> Nil]
        ELSE IF StrHasPrefix(t, <<"$", "5", "$">>) THEN [alg |-> AlgoCryptSHA256, err |-> Nil]
        ELSE IF StrHasPrefix(t, <<"$", "1", "$">>) THEN [alg |-> AlgoCryptMD5, err |-> Nil]
        ELSE IF isHexLen(ls, HexLenMD5) THEN [alg |-> AlgoRawMD5, err |-> Nil]
        ELSE IF isHexLen(ls, HexLenSHA1) THEN [alg |-> AlgoRawSHA1, err |-> Nil]
        ELSE IF isHexLen(ls, HexLenSHA256) THEN [alg |-> AlgoRawSHA256, err |-> Nil]
        ELSE IF isHexLen(ls, HexLenSHA512) THEN [alg |-> AlgoRawSHA512, err |-> Nil]
        ELSE [alg |-> NoAlgo, err |-> ErrUnsupportedAlgorithm]

\* ----- DefaultHasher
\* resolveCrypter: the id of the crypt(3) routine, 0 for no routine
resolveCrypter(alg) ==
    IF alg = AlgoCryptMD5 THEN 1
    ELSE IF alg = AlgoCryptSHA256 THEN 5
    ELSE IF alg = AlgoCryptSHA512 THEN 6
    ELSE 0

\* resolveHash: the length in hex characters of the digest, 0 for no hash
resolveHash(alg) ==
    IF alg = AlgoRawMD5 THEN HexLenMD5
    ELSE IF alg = AlgoRawSHA1 THEN HexLenSHA1
    ELSE IF alg = AlgoRawSHA256 THEN HexLenSHA256
    ELSE IF alg = AlgoRawSHA512 THEN HexLenSHA512
    ELSE 0

\* hex.EncodeToString(h.Sum(nil)): n lowercase hex characters, written so that
\* two plaintexts have the same digest exactly when they are equal
HexOfChar(c) == IF c = "p" THEN "a" ELSE IF c = "q" THEN "b" ELSE "c"

HexSum(plain, n) ==
    [i \in 1..n |-> IF i <= Len(plain) THEN HexOfChar(plain[i])
                    ELSE IF i = Len(plain) + 1 THEN "f" ELSE "0"]

\* an optional int argument: <<>> is nil, <<n>> points to n
OrDefault(ptr, def) == IF ptr = <<>> THEN def ELSE ptr[1]

NoHash == [err |-> Nil, hash |-> <<>>, salt |-> <<>>, read |-> FALSE]

\* a Hash that validates rounds and salt length for every algorithm
HashValidatingRaw(rr, plain, alg, rounds, saltLen) ==
    LET id == resolveCrypter(alg)
        sp == prepareSaltSpec(rr, IF id = 0 THEN 1 ELSE id, OrDefault(rounds, DefaultRounds),
                              OrDefault(saltLen, DefaultSaltLen))
        g  == CrypterGenerate(id, plain, sp.saltSpec)
    IN  IF IsCrypt(alg)
        THEN IF id = 0 THEN [NoHash EXCEPT !.err = ErrUnsupportedAlgorithm]
             ELSE IF sp.err # Nil THEN [NoHash EXCEPT !.err = sp.err, !.read = sp.read]
             ELSE [err |-> g.err, hash |-> g.hash, salt |-> sp.salt, read |-> TRUE]
        ELSE IF resolveHash(alg) = 0 THEN [NoHash EXCEPT !.err = ErrUnsupportedAlgorithm]
             ELSE IF sp.err # Nil THEN [NoHash EXCEPT !.err = sp.err, !.read = sp.read]
             ELSE [NoHash EXCEPT !.hash = HexSum(plain, resolveHash(alg))]

\* DefaultHasher.Hash; salt is the salt randomSalt produced and read tells
\* whether the random source was read
Hash(rr, plain, alg, rounds, saltLen) ==
    LET id == resolveCrypter(alg)
        sp == prepareSaltSpec(rr, id, OrDefault(rounds, DefaultRounds),
                              OrDefault(saltLen, DefaultSaltLen))
        g  == CrypterGenerate(id, plain, sp.saltSpec)
    IN  IF IsCrypt(alg)
        THEN IF id = 0 THEN [NoHash EXCEPT !.err = ErrUnsupportedAlgorithm]
             ELSE IF sp.err # Nil THEN [NoHash EXCEPT !.err = sp.err, !.read = sp.read]
             ELSE [err |-> g.err, hash |-> g.hash, salt |-> sp.salt, read |-> TRUE]
        ELSE IF resolveHash(alg) = 0 THEN [NoHash EXCEPT !.err = ErrUnsupportedAlgorithm]
             ELSE [NoHash EXCEPT !.hash = HexSum(plain, resolveHash(alg))]

\* stringsEq: equal lengths, then a constant-time comparison
stringsEq(a, b) == Len(a) = Len(b) /\ a = b

\* a Verify that compares the stored raw digest as it is written
HasherVerifyCaseSensitive(hashed, plain) ==
    LET d == DetectHashAlgo(hashed)
    IN  IF d.err # Nil THEN [verified |-> FALSE, alg |-> d.alg, err |-> d.err]
        ELSE IF resolveCrypter(d.alg) # 0
        THEN [verified |-> CrypterVerify(resolveCrypter(d.alg), hashed, plain) = Nil,
              alg |-> d.alg, err |-> Nil]
        ELSE [verified |-> stringsEq(hashed, HexSum(plain, resolveHash(d.alg))),
              alg |-> d.alg, err |-> Nil]

\* a Verify that hands on what the crypt library reports about the stored text
HasherVerifyLibErr(hashed, plain) ==
    LET d == DetectHashAlgo(hashed)
        e == CrypterVerify(resolveCrypter(d.alg), hashed, plain)
    IN  IF d.err # Nil THEN [verified |-> FALSE, alg |-> d.alg, err |-> d.err]
        ELSE IF resolveCrypter(d.alg) # 0
        THEN [verified |-> e = Nil, alg |-> d.alg,
              err |-> IF e \in {Nil, ErrKeyMismatch} THEN Nil ELSE e]
        ELSE [verified |-> stringsEq(ToLower(hashed), HexSum(plain, resolveHash(d.alg))),
              alg |-> d.alg, err |-> Nil]

\* DefaultHasher.Verify
HasherVerify(hashed, plain) ==
    LET d == DetectHashAlgo(hashed)
    IN  IF d.err # Nil THEN [verified |-> FALSE, alg |-> d.alg, err |-> d.err]
        ELSE IF resolveCrypter(d.alg) # 0
        THEN [verified |-> CrypterVerify(resolveCrypter(d.alg), hashed, plain) = Nil,
              alg |-> d.alg, err |-> Nil]
        ELSE [verified |-> stringsEq(ToLower(hashed), HexSum(plain, resolveHash(d.alg))),
              alg |-> d.alg, err |-> Nil]

\* ------------------------------------------------------------------ state
VARIABLES
    cfg,         \* config.AuthenticatorConfig the authenticators were built from
    hmacAuth,    \* *HMACAuthenticator (or construction error)
    bearerAuth,  \* *BearerAuthenticator (or construction error)
    multiAuth,   \* *MultiAuthenticator (or construction error)
    buildErr,    \* the error each of the three constructors returned
    repo,        \* what the ApiServer keeps: the account repository and the filesystem
    now,         \* time.Now().UTC(), in seconds
    req,         \* the *http.Request being handled
    sent,        \* how the client composed req: what it signed and what was changed since
    res,         \* outcome of the last Verify call on req
    down,        \* outcome of the handler's read of req.Body after Verify
    calls,       \* the Verify and Supports calls running concurrently, one per goroutine
    hasher,      \* the last calls of DefaultHasher and what they returned
    accounts,    \* InMemAccountRepository: the users and groups maps
    api,         \* the last DefaultApiServer call and what it returned
    ops,         \* the repository calls running concurrently, one per goroutine
    fs           \* the directories DefaultFsStorageService has touched

vars == <<cfg, hmacAuth, bearerAuth, multiAuth, buildErr, repo, now, req, sent, res, down, calls,
          hasher, accounts, api, ops, fs>>

\* ------------------------------------------------------------ input domains
S1 == <<"0", "a">>
S2 == <<"0", "A">>
S3 == <<"0", "a", "0", "0">>
S4 == <<"1", "1">>

KeyIds == {"", "k1", "k2", "k3"}
Methods == {"GET", "POST"}
Paths == {"/a", "/b"}
Queries == {"", "x=1"}
Bodies == {<<>>, <<1>>, <<1, 2>>}

Config(keys, w, enabled) ==
    [AccessKeys |-> keys, WindowSeconds |-> w, EnabledAuthenticators |-> enabled]

Configs ==
    { Config([k \in {"k1", "k2"} |-> IF k = "k1" THEN S1 ELSE S4], 1, <<"hmac", "bearer">>),
      Config([k \in {"", "k1", "k2"} |-> IF k = "k1" THEN S1 ELSE IF k = "k2" THEN S2 ELSE S3],
             1, <<"bearer">>),
      Config([k \in {"k1"} |-> <<" ", "0", "a", " ">>], 0, <<"basic", "hmac">>),
      Config([k \in {"k1", "k2"} |-> IF k = "k1" THEN <<"g", "0">> ELSE <<" ">>], 1,
             <<"hmac", "bearer">>),
      Config([k \in {"k1", "k2"} |-> IF k = "k1" THEN S1 ELSE <<"0">>], 1, <<"basic">>) }

\* request streams a client or a failing connection can present
Streams ==
    {NilBody} \cup {NewReader(b) : b \in Bodies}
      \cup {[NewReader(<<1, 2>>) EXCEPT !.failAt = 1], [NewReader(<<1>>) EXCEPT !.failAt = 0]}

NoReq == [method |-> "GET", url |-> [path |-> "/a", query |-> ""], apiKey |-> "",
          authz |-> NoAuthz, ts |-> NoTs, bodySHA |-> NoSha, body |-> NilBody]

NoSent == [kind |-> "none", tampered |-> "none", key |-> "", body |-> <<>>, accepted |-> FALSE,
           read |-> FALSE]
EmptyRepo == [users |-> {}, dirs |-> {}]
NoRes == [op |-> "none", err |-> Nil, at |-> 0, replay |-> FALSE, before |-> NilBody,
          order |-> <<>>, consulted |-> <<>>,
          status |-> 0, msg |-> "", ran |-> FALSE, repo0 |-> EmptyRepo]
NoDown == [done |-> FALSE, b |-> <<>>, err |-> FALSE]

\* goroutines serving requests at the same time, and a slot with no call
Workers == {1, 2}
NoCall == [pc |-> "idle", op |-> "", kind |-> "", r |-> NoReq, order |-> <<>>, inner |-> "",
           secret |-> <<>>, clock |-> 0, err |-> Nil, body |-> NilBody, supports |-> FALSE]

\* a random source that has not been used, and a hasher that has not been called
NoRng == [fail |-> FALSE, bytes |-> <<0>>]
NoVerdict == [verified |-> FALSE, alg |-> NoAlgo, err |-> Nil]
NoHasher == [call |-> "none", plain |-> <<>>, alg |-> NoAlgo, rounds |-> <<>>,
             saltLen |-> <<>>, rr1 |-> NoRng, h1 |-> NoHash, rr2 |-> NoRng, h2 |-> NoHash,
             stored |-> <<>>, attempt |-> <<>>, v |-> NoVerdict]

\* ----- paths and DefaultFsStorageService
\* A path is its list of elements and whether it begins with the separator:
\* "../x" is RelPath(<<"..", "x">>), "/etc" is AbsPath(<<"etc">>), "." is RelPath(<<>>).
RelPath(segs) == [abs |-> FALSE, segs |-> segs]
AbsPath(segs) == [abs |-> TRUE, segs |-> segs]

\* filepath.Clean: "." elements go, "x/.." goes, ".." at the root goes, ".."
\* at the start of a relative path stays
RECURSIVE CleanSegs(_, _, _)
CleanSegs(abs, done, rest) ==
    IF rest = <<>> THEN done
    ELSE IF Head(rest) = "." THEN CleanSegs(abs, done, Tail(rest))
    ELSE IF Head(rest) = ".."
    THEN IF done # <<>> /\ done[Len(done)] # ".."
         THEN CleanSegs(abs, SubSeq(done, 1, Len(done) - 1), Tail(rest))
         ELSE IF abs THEN CleanSegs(abs, done, Tail(rest))
         ELSE CleanSegs(abs, done \o <<"..">>, Tail(rest))
    ELSE CleanSegs(abs, done \o <<Head(rest)>>, Tail(rest))

Clean(p) == [abs |-> p.abs, segs |-> CleanSegs(p.abs, <<>>, p.segs)]

\* filepath.Join(a, b) for a non-empty a: a, separator, b, cleaned
Join(a, b) == Clean([abs |-> a.abs, segs |-> a.segs \o b.segs])

\* filepath.Dir of a cleaned path with at least one element
Dir(p) == [abs |-> p.abs, segs |-> SubSeq(p.segs, 1, Len(p.segs) - 1)]

\* strings.HasPrefix(x + separator, y + separator) for cleaned absolute paths;
\* for y the root, y + separator is "//", which begins no cleaned path
Within(x, y) ==
    /\ y.segs # <<>>
    /\ Len(x.segs) >= Len(y.segs)
    /\ SubSeq(x.segs, 1, Len(y.segs)) = y.segs

\* config.StorageConfig: HomesBaseDir and DefaultUserTopDirs
HomesBaseDir == AbsPath(<<"b">>)
DefaultUserTopDirs == <<RelPath(<<"t">>)>>

ErrAbsolutePath == "using absolute path"
ErrEscapes == "escapes"
ErrNonTopLevel == "refusing non-top-level directory"
ErrNotExist == "top dir does not exist"

\* the filesystem: the directories that exist and the paths MkdirAll, Chown,
\* Chmod or RemoveAll were called with
NoFs == [dirs |-> {AbsPath(<<>>), HomesBaseDir}, touched |-> {}]

Ancestors(p) == {AbsPath(SubSeq(p.segs, 1, n)) : n \in 0..Len(p.segs)}

\* ensureDir: MkdirAll (the path and its missing parents), Chown, Chmod
ensureDir(f, path) ==
    [dirs |-> f.dirs \cup Ancestors(path), touched |-> f.touched \cup {path}]

RemoveAll(f, path) ==
    [dirs |-> {d \in f.dirs : ~Within(d, path)}, touched |-> f.touched \cup {path}]

\* the storage service's calls return the error and the filesystem they leave
PrepareGroupHome(f, group) ==
    LET groupHome    == Clean(group.Home)
        absGroupHome == Clean(Join(HomesBaseDir, groupHome))
    IN  IF groupHome.abs THEN [err |-> ErrAbsolutePath, fs |-> f]
        ELSE IF ~Within(absGroupHome, HomesBaseDir) THEN [err |-> ErrEscapes, fs |-> f]
        ELSE [err |-> Nil, fs |-> ensureDir(f, absGroupHome)]

RECURSIVE EnsureTopDirs(_, _, _)
EnsureTopDirs(f, home, tops) ==
    IF tops = <<>> THEN f
    ELSE EnsureTopDirs(ensureDir(f, Join(home, Head(tops))), home, Tail(tops))

PrepareUserHome(f, user, group) ==
    LET groupHome    == Clean(group.Home)
        userHome     == Clean(user.Home)
        absGroupHome == Clean(Join(HomesBaseDir, groupHome))
        absUserHome  == Clean(Join(absGroupHome, userHome))
    IN  IF groupHome.abs \/ userHome.abs THEN [err |-> ErrAbsolutePath, fs |-> f]
        ELSE IF ~Within(absUserHome, absGroupHome) THEN [err |-> ErrEscapes, fs |-> f]
        ELSE [err |-> Nil,
              fs |-> EnsureTopDirs(ensureDir(f, absUserHome), absUserHome,
                                   DefaultUserTopDirs)]

CreateUserTopDir(f, user, group, topDir) ==
    LET groupHome   == Clean(group.Home)
        userHome    == Clean(user.Home)
        top         == Clean(topDir)
        absUserHome == Clean(Join(Join(HomesBaseDir, groupHome), userHome))
        absTop      == Clean(Join(absUserHome, top))
    IN  IF groupHome.abs \/ userHome.abs \/ top.abs THEN [err |-> ErrAbsolutePath, fs |-> f]
        ELSE IF ~Within(absTop, absUserHome) THEN [err |-> ErrEscapes, fs |-> f]
        ELSE IF absTop.segs = <<>> \/ Dir(absTop) # absUserHome
        THEN [err |-> ErrNonTopLevel, fs |-> f]
        ELSE [err |-> Nil, fs |-> ensureDir(f, absTop)]

DeleteUserTopDir(f, user, group, topDir) ==
    LET groupHome    == Clean(group.Home)
        userHome     == Clean(user.Home)
        top          == Clean(topDir)
        absGroupHome == Clean(Join(HomesBaseDir, groupHome))
        absUserHome  == Clean(Join(absGroupHome, userHome))
        absTop       == Clean(Join(absUserHome, top))
    IN  IF groupHome.abs \/ userHome.abs \/ top.abs THEN [err |-> ErrAbsolutePath, fs |-> f]
        ELSE IF ~Within(absUserHome, absGroupHome) THEN [err |-> ErrEscapes, fs |-> f]
        ELSE IF ~Within(absTop, absUserHome) THEN [err |-> ErrEscapes, fs |-> f]
        ELSE IF absTop.segs = <<>> \/ Dir(absTop) # absUserHome
        THEN [err |-> ErrNonTopLevel, fs |-> f]
        ELSE IF absTop \notin f.dirs THEN [err |-> ErrNotExist, fs |-> f]
        ELSE [err |-> Nil, fs |-> RemoveAll(f, absTop)]

\* ----- InMemAccountRepository
ErrNotFound == "not found"
ErrConflict == "conflict"
ErrAlreadyExists == "already exists"
ErrInvalidInput == "invalid input"
ErrLockedUser == "user is locked"
ErrInvalidCredentials == "invalid credentials"
ErrLimit == "limit reached"
ErrLowId == "id is lower than the minimum"
ErrNameRequired == "name is required"
ErrPasswordRequired == "password is required"
ErrVerifier == "password verifier error"
ErrMutate == "mutate failed"

MinUID == 2000
MinGID == 2000
EntitiesLimit == 2

\* ports.GroupInfo and ports.UserInfo (without the descriptions); an
\* expiration is <<>> (nil) or <<t>>
GroupInfo(name, gid, home) == [Groupname |-> name, GID |-> gid, Home |-> home]
UserInfo(name, uid, group, password, isHash, home, expiration, disabled) ==
    [Username |-> name, UID |-> uid, Groupname |-> group, Password |-> password,
     PasswordIsHash |-> isHash, Home |-> home, Expiration |-> expiration,
     Disabled |-> disabled]
NoGroup == GroupInfo("", 0, RelPath(<<>>))
NoUser == UserInfo("", 0, "", <<>>, FALSE, RelPath(<<>>), <<>>, FALSE)

EmptyAccounts == [users |-> {}, groups |-> {}]

GetGroup(r, name) ==
    IF \E g \in r.groups : g.Groupname = name
    THEN [err |-> Nil, g |-> CHOOSE g \in r.groups : g.Groupname = name]
    ELSE [err |-> ErrNotFound, g |-> NoGroup]

\* AddGroup given what len(s.groups) was when the limit was tested
AddGroupAfter(r, seen, group) ==
    IF seen >= EntitiesLimit THEN [err |-> ErrLimit, repo |-> r]
    ELSE IF group.GID < MinGID THEN [err |-> ErrLowId, repo |-> r]
    ELSE IF group.Groupname = "" THEN [err |-> ErrNameRequired, repo |-> r]
    ELSE IF GetGroup(r, group.Groupname).err = Nil THEN [err |-> ErrAlreadyExists, repo |-> r]
    ELSE [err |-> Nil, repo |-> [r EXCEPT !.groups = @ \cup {group}]]

AddGroup(r, group) == AddGroupAfter(r, Cardinality(r.groups), group)

UpdateGroup(r, group) ==
    IF GetGroup(r, group.Groupname).err # Nil THEN [err |-> ErrNotFound, repo |-> r]
    ELSE [err |-> Nil,
          repo |-> [r EXCEPT !.groups =
                        {g \in @ : g.Groupname # group.Groupname} \cup {group}]]

DeleteGroup(r, name) ==
    IF GetGroup(r, name).err # Nil THEN [err |-> ErrNotFound, repo |-> r]
    ELSE [err |-> Nil, repo |-> [r EXCEPT !.groups = {g \in @ : g.Groupname # name}]]

GetUser(r, name) ==
    IF \E u \in r.users : u.Username = name
    THEN [err |-> Nil, u |-> CHOOSE u \in r.users : u.Username = name]
    ELSE [err |-> ErrNotFound, u |-> NoUser]

GetNextUID(r) == MinUID + Cardinality(r.users)

\* AddUser given what len(s.users) was when the limit was tested
AddUserAfter(r, seen, user) ==
    IF seen >= EntitiesLimit THEN [err |-> ErrLimit, repo |-> r]
    ELSE IF user.UID < MinUID THEN [err |-> ErrLowId, repo |-> r]
    ELSE IF user.Username = "" THEN [err |-> ErrNameRequired, repo |-> r]
    ELSE IF GetUser(r, user.Username).err = Nil THEN [err |-> ErrAlreadyExists, repo |-> r]
    ELSE [err |-> Nil, repo |-> [r EXCEPT !.users = @ \cup {user}]]

AddUser(r, user) == AddUserAfter(r, Cardinality(r.users), user)

UpdateUser(r, user) ==
    IF GetUser(r, user.Username).err # Nil THEN [err |-> ErrNotFound, repo |-> r]
    ELSE [err |-> Nil,
          repo |-> [r EXCEPT !.users = {u \in @ : u.Username # user.Username} \cup {user}]]

DeleteUser(r, name) ==
    IF GetUser(r, name).err # Nil THEN [err |-> ErrNotFound, repo |-> r]
    ELSE [err |-> Nil, repo |-> [r EXCEPT !.users = {u \in @ : u.Username # name}]]

\* ports.IsUserLocked: expiration.Before(time.Now())
IsUserLocked(disabled, expiration, clock) ==
    disabled \/ (expiration # <<>> /\ expiration[1] < clock)

GetUserAuthzInfo(r, name, clock) ==
    LET gu == GetUser(r, name)
        gg == GetGroup(r, gu.u.Groupname)
    IN  IF gu.err # Nil THEN [err |-> gu.err, Locked |-> FALSE, Password |-> <<>>]
        ELSE IF gg.err # Nil THEN [err |-> gg.err, Locked |-> FALSE, Password |-> <<>>]
        ELSE [err |-> Nil,
              Locked |-> IsUserLocked(gu.u.Disabled, gu.u.Expiration, clock),
              Password |-> gu.u.Password]

\* ----- DefaultApiServer
\* DefaultHasher.DefaultHash of the hasher NewDefaultHasher builds (crypt-sha256)
DefaultAlgId == 5

DefaultHash(rr, plain) ==
    LET sp == prepareSaltSpec(rr, DefaultAlgId, DefaultRounds, DefaultSaltLen)
    IN  IF sp.err # Nil THEN [err |-> sp.err, hash |-> <<>>]
        ELSE CrypterGenerate(DefaultAlgId, plain, sp.saltSpec)

\* a preparePassword that hashes whatever it is given
preparePasswordAlways(rr, password, passwordIsHash) ==
    IF password = <<>> THEN [err |-> ErrPasswordRequired, hash |-> <<>>]
    ELSE DefaultHash(rr, password)

preparePassword(rr, password, passwordIsHash) ==
    IF password = <<>> THEN [err |-> ErrPasswordRequired, hash |-> <<>>]
    ELSE IF passwordIsHash THEN [err |-> Nil, hash |-> password]
    ELSE DefaultHash(rr, password)

sameUserData(up, ur, reqPasswordIsHashed) ==
    /\ up.Username = ur.Username /\ up.Groupname = ur.Groupname
    /\ up.Home = ur.Home /\ up.Disabled = ur.Disabled
    /\ up.Expiration = ur.Expiration
    /\ IF reqPasswordIsHashed THEN up.Password = ur.Password
       ELSE HasherVerify(up.Password, ur.Password).verified

sameGroupData(a, b) == a.Groupname = b.Groupname /\ a.GID = b.GID /\ a.Home = b.Home

\* the API calls return the error, what else the call returns, and the
\* repository and the filesystem they leave
EnsureUser(r, f, rr, ru) ==
    LET found   == GetUser(r, ru.Username)
        create  == found.err = ErrNotFound
        withUid == IF ru.UID = 0 THEN [ru EXCEPT !.UID = GetNextUID(r)] ELSE ru
        pp      == preparePassword(rr, ru.Password, ru.PasswordIsHash)
        hashed  == [withUid EXCEPT !.Password = pp.hash, !.PasswordIsHash = TRUE]
        added   == AddUser(r, hashed)
        r2      == IF create THEN added.repo ELSE r
        pu      == IF create THEN hashed ELSE found.u
        ru2     == IF create THEN hashed ELSE [ru EXCEPT !.UID = found.u.UID]
        gg      == GetGroup(r2, ru2.Groupname)
        home    == PrepareUserHome(f, pu, gg.g)
        Failed(e, rp) == [err |-> e, created |-> FALSE, pu |-> NoUser, repo |-> rp, fs |-> f]
    IN  IF create /\ pp.err # Nil THEN Failed(pp.err, r)
        ELSE IF create /\ added.err # Nil THEN Failed(added.err, r)
        ELSE IF ~create /\ ~sameUserData(found.u, ru2, ru.PasswordIsHash)
        THEN Failed(ErrConflict, r)
        ELSE IF gg.err # Nil THEN Failed(gg.err, r2)
        ELSE IF home.err # Nil THEN Failed(home.err, r2)
        ELSE [err |-> Nil, created |-> create, pu |-> pu, repo |-> r2, fs |-> home.fs]

\* an EnsureGroup that stores the requested attributes of a group it finds
EnsureGroupOverwriting(r, f, rg) ==
    LET found  == GetGroup(r, rg.Groupname)
        create == found.err = ErrNotFound
        added  == AddGroup(r, rg)
        r2     == IF create THEN added.repo ELSE UpdateGroup(r, rg).repo
        pg     == IF create THEN rg ELSE found.g
        home   == PrepareGroupHome(f, pg)
        Failed(e, rp) == [err |-> e, created |-> FALSE, pg |-> NoGroup, repo |-> rp, fs |-> f]
    IN  IF create /\ added.err # Nil THEN Failed(added.err, r)
        ELSE IF ~create /\ ~sameGroupData(found.g, rg) THEN Failed(ErrConflict, r2)
        ELSE IF home.err # Nil THEN Failed(home.err, r2)
        ELSE [err |-> Nil, created |-> create, pg |-> pg, repo |-> r2, fs |-> home.fs]

EnsureGroup(r, f, rg) ==
    LET found  == GetGroup(r, rg.Groupname)
        create == found.err = ErrNotFound
        added  == AddGroup(r, rg)
        r2     == IF create THEN added.repo ELSE r
        pg     == IF create THEN rg ELSE found.g
        home   == PrepareGroupHome(f, pg)
        Failed(e, rp) == [err |-> e, created |-> FALSE, pg |-> NoGroup, repo |-> rp, fs |-> f]
    IN  IF create /\ added.err # Nil THEN Failed(added.err, r)
        ELSE IF ~create /\ ~sameGroupData(found.g, rg) THEN Failed(ErrConflict, r)
        ELSE IF home.err # Nil THEN Failed(home.err, r2)
        ELSE [err |-> Nil, created |-> create, pg |-> pg, repo |-> r2, fs |-> home.fs]

\* the mutate functions the callers of UpdateUser pass
Mutations == {"disable", "enable", "expire", "clearExpiration", "password", "fail"}
ExpireAt == MaxNow - 1
NewPassword == <<"q">>

Mutate(kind, u) ==
    CASE kind = "disable" -> [u EXCEPT !.Disabled = TRUE]
      [] kind = "enable" -> [u EXCEPT !.Disabled = FALSE]
      [] kind = "expire" -> [u EXCEPT !.Expiration = <<ExpireAt>>]
      [] kind = "clearExpiration" -> [u EXCEPT !.Expiration = <<>>]
      [] kind = "password" -> [u EXCEPT !.Password = NewPassword, !.PasswordIsHash = FALSE]
      [] OTHER -> u

ApiUpdateUser(r, rr, username, kind) ==
    LET found == GetUser(r, username)
        mg    == Mutate(kind, found.u)
        pp    == preparePassword(rr, mg.Password, mg.PasswordIsHash)
        upd   == UpdateUser(r, [mg EXCEPT !.Password = pp.hash, !.PasswordIsHash = TRUE])
    IN  IF found.err # Nil THEN [err |-> found.err, repo |-> r]
        ELSE IF kind = "fail" THEN [err |-> ErrMutate, repo |-> r]
        ELSE IF pp.err # Nil THEN [err |-> pp.err, repo |-> r]
        ELSE upd

ApiDeleteUser(r, username) ==
    IF GetUser(r, username).err # Nil THEN [err |-> GetUser(r, username).err, repo |-> r]
    ELSE DeleteUser(r, username)

AuthzAuthUser(r, clock, username, password) ==
    LET ua == GetUserAuthzInfo(r, username, clock)
        v  == HasherVerify(ua.Password, password)
    IN  IF username = "" \/ password = <<>> THEN ErrInvalidInput
        ELSE IF ua.err # Nil THEN ErrInvalidCredentials
        ELSE IF ua.Locked THEN ErrLockedUser
        ELSE IF v.err # Nil THEN ErrVerifier
        ELSE IF ~v.verified THEN ErrInvalidCredentials
        ELSE Nil

\* ----- API server and concurrent repository calls: initial values
NoApi == [op |-> "none", name |-> "", ru |-> NoUser, rg |-> NoGroup, kind |-> "",
          password |-> <<>>, rr |-> NoRng, err |-> Nil, created |-> FALSE,
          before |-> EmptyAccounts, fsBefore |-> NoFs, at |-> 0]
NoOp == [pc |-> "idle", kind |-> "", name |-> "", seen |-> 0]

Init ==
    /\ cfg \in Configs
    /\ hmacAuth = NewHMACAuthenticator(cfg)
    /\ bearerAuth = NewBearerAuthenticator(cfg)
    /\ multiAuth = [ok |-> NewMultiAuthenticator(cfg).ok,
                    authenticators |-> IF NewMultiAuthenticator(cfg).ok
                                       THEN MultiAuthenticators(cfg) ELSE <<>>]
    /\ repo = EmptyRepo
    /\ calls = [w \in Workers |-> NoCall]
    /\ hasher = NoHasher
    /\ accounts = EmptyAccounts
    /\ api = NoApi
    /\ ops = [w \in Workers |-> NoOp]
    /\ fs = NoFs
    /\ buildErr \in [hmac : ConstructorErrors(cfg), bearer : ConstructorErrors(cfg),
                     multi : MultiConstructorErrors(cfg)]
    /\ now = 0
    /\ req = NoReq
    /\ sent = NoSent
    /\ res = NoRes
    /\ down = NoDown

Built == <<cfg, hmacAuth, bearerAuth, multiAuth, buildErr>>

\* what the sequential request path leaves alone
App == <<accounts, api, ops, fs>>
Others == <<calls, hasher, App>>

\* ------------------------------------------------------------------ clients
\* what signHMAC of the test helper and calculate_hmac of the README compute
ClientSign(secret, method, url, ts, b) ==
    HmacSha256(secret, <<method, PathWithQuery(url), ts, Sha256Hex(b)>>)

\* a client signs a request with the secret configured for key k
SignRequest(k, q, off, strm) ==
    /\ sent.kind = "none"
    /\ hmacAuth.ok
    /\ k \in DOMAIN hmacAuth.accessSecrets
    /\ LET url == [path |-> "/a", query |-> q]
           ts  == Rfc3339(now + off, "Z")
           mac == ClientSign(hmacAuth.accessSecrets[k], "GET", url, ts, strm.data)
       IN  req' = [method |-> "GET", url |-> url, apiKey |-> k,
                   authz |-> Authz("HMAC ", MacCred(mac, FALSE)), ts |-> ts,
                   bodySHA |-> Sha256Hex(strm.data), body |-> strm]
    /\ sent' = [NoSent EXCEPT !.kind = "signed", !.key = k, !.body = strm.data]
    /\ res' = NoRes
    /\ down' = NoDown
    /\ UNCHANGED <<Built, Others, repo, now>>

\* a client presents a bearer secret
BearerRequest(k, chars, strm) ==
    /\ sent.kind = "none"
    /\ req' = [NoReq EXCEPT !.apiKey = k, !.authz = Authz("Bearer ", HexCred(chars)),
                            !.body = strm]
    /\ sent' = [NoSent EXCEPT !.kind = "bearer", !.key = k, !.body = strm.data]
    /\ res' = NoRes
    /\ down' = NoDown
    /\ UNCHANGED <<Built, Others, repo, now>>

\* any other combination of headers
RawAuthz ==
    { NoAuthz, Authz("HMAC ", HexCred(S1)), Authz("HMAC ", JunkCred), Authz("HMAC ", NoCred),
      Authz("HMAC", HexCred(S1)), Authz("Bearer ", HexCred(S1)), Authz("Basic ", JunkCred) }

RawRequest(k, a, ts, sha, strm) ==
    /\ sent.kind = "none"
    /\ req' = [NoReq EXCEPT !.apiKey = k, !.authz = a, !.ts = ts, !.bodySHA = sha,
                            !.body = strm]
    /\ sent' = [NoSent EXCEPT !.kind = "raw", !.key = k, !.body = strm.data]
    /\ res' = NoRes
    /\ down' = NoDown
    /\ UNCHANGED <<Built, Others, repo, now>>

\* the signed request is changed in one place on its way to the server
Changed(field, r) ==
    /\ sent.kind = "signed"
    /\ sent.tampered = "none"
    /\ res = NoRes
    /\ ~req.body.nil /\ req.body.failAt = -1 /\ req.body.pos = 0
    /\ req' = r
    /\ sent' = [sent EXCEPT !.tampered = field, !.body = r.body.data, !.accepted = FALSE]
    /\ res' = NoRes
    /\ down' = NoDown
    /\ UNCHANGED <<Built, Others, repo, now>>

Tamper ==
    \/ \E m \in Methods \ {req.method} : Changed("method", [req EXCEPT !.method = m])
    \/ \E p \in Paths \ {req.url.path} : Changed("path", [req EXCEPT !.url.path = p])
    \/ \E q \in Queries \ {req.url.query} : Changed("query", [req EXCEPT !.url.query = q])
    \/ \E t \in {Rfc3339(req.ts.t, "+00:00"), Rfc3339(req.ts.t + 1, "Z")} :
          Changed("ts", [req EXCEPT !.ts = t])
    \/ \E b \in Bodies \ {req.body.data} :
          Changed("body", [req EXCEPT !.body = NewReader(b)])
    \/ \E b \in Bodies \ {req.body.data} :
          Changed("body+sha", [req EXCEPT !.body = NewReader(b), !.bodySHA = Sha256Hex(b)])
    \/ \E k \in KeyIds \ {req.apiKey} : Changed("apikey", [req EXCEPT !.apiKey = k])
    \/ Changed("case", [req EXCEPT !.bodySHA.upper = TRUE, !.authz.cred.upper = TRUE])

\* the same request is sent again (a fresh reader over the same bytes); it is
\* the only way on once the handler has read the body
Resend ==
    /\ sent.kind = "signed"
    /\ req' = [req EXCEPT !.body = NewReader(sent.body)]
    /\ sent' = [sent EXCEPT !.read = FALSE]
    /\ res' = NoRes
    /\ down' = NoDown
    /\ UNCHANGED <<Built, Others, repo, now>>

\* ------------------------------------------------------------------- server
\* the request has been answered; the server waits for the next one
Done ==
    /\ sent.kind # "none"
    /\ req' = NoReq
    /\ sent' = NoSent
    /\ res' = NoRes
    /\ down' = NoDown
    /\ UNCHANGED <<Built, Others, repo, now>>

Tick ==
    /\ now < MaxNow
    /\ now' = now + 1
    /\ res' = NoRes
    /\ down' = NoDown
    /\ UNCHANGED <<Built, Others, repo, req, sent>>

Record(op, v, order, consulted) ==
    /\ req' = [req EXCEPT !.body = v.body]
    /\ res' = [op |-> op, err |-> v.err, at |-> now, replay |-> sent.accepted,
               before |-> req.body, order |-> order, consulted |-> consulted,
               status |-> 0, msg |-> "", ran |-> FALSE, repo0 |-> EmptyRepo]
    /\ down' = NoDown
    /\ UNCHANGED <<Built, Others, repo, now>>

HMACVerifyCall ==
    /\ ~sent.read
    /\ hmacAuth.ok
    /\ sent.kind # "none"
    /\ LET v == HMACVerify(hmacAuth, req, now)
       IN  /\ Record("hmac", v, <<>>, <<>>)
           /\ sent' = [sent EXCEPT !.accepted = (sent.accepted \/ v.err = Nil)]

BearerVerifyCall ==
    /\ ~sent.read
    /\ bearerAuth.ok
    /\ sent.kind # "none"
    /\ Record("bearer", BearerVerify(bearerAuth, req), <<>>, <<>>)
    /\ UNCHANGED sent

MultiVerifyCall ==
    /\ ~sent.read
    /\ multiAuth.ok
    /\ sent.kind # "none"
    /\ \E order \in Orders(DOMAIN multiAuth.authenticators) :
          LET v == MultiVerify(multiAuth.authenticators, req, now, order)
          IN  Record("multi", v, order, v.consulted)
    /\ UNCHANGED sent

\* the handler behind the authenticator reads the body to its end
DownstreamRead ==
    /\ res.op # "none"
    /\ ~sent.read
    /\ ~req.body.nil
    /\ LET rd == ReadAll(req.body)
       IN  /\ down' = [done |-> TRUE, b |-> rd.b, err |-> rd.err]
           /\ req' = [req EXCEPT !.body = rd.body]
    /\ sent' = [sent EXCEPT !.accepted = FALSE, !.read = TRUE]
    /\ UNCHANGED <<Built, Others, repo, now, res>>

\* --------------------------------------------------------------- REST layer
\* The secured handlers of DefaultRestServer, one per family of routes.
RestHandlers ==
    {"ListUsers", "EnsureUser", "DeleteUser", "ListGroups", "EnsureUserDir",
     "AuthzLookupUser", "AuthzAuthUser"}

\* handlers that decode the request body before calling the ApiServer
BodyHandlers == {"EnsureUser", "AuthzAuthUser"}

StatusOK == 200
StatusCreated == 201
StatusNoContent == 204
StatusBadRequest == 400
StatusUnauthorized == 401
StatusForbidden == 403
StatusNotFound == 404
StatusUnsupportedMediaType == 415

\* the ApiServer operation behind handler h on the account repository and the
\* filesystem rp, for the one user "bob" and the one directory "d"
ApiCall(h, rp) ==
    CASE h = "EnsureUser" ->
           [repo |-> [rp EXCEPT !.users = @ \cup {"bob"}],
            status |-> IF "bob" \in rp.users THEN StatusOK ELSE StatusCreated]
      [] h = "DeleteUser" ->
           [repo |-> [rp EXCEPT !.users = @ \ {"bob"}],
            status |-> IF "bob" \in rp.users THEN StatusNoContent ELSE StatusNotFound]
      [] h = "EnsureUserDir" ->
           IF "bob" \in rp.users
           THEN [repo |-> [rp EXCEPT !.dirs = @ \cup {"d"}],
                 status |-> IF "d" \in rp.dirs THEN StatusOK ELSE StatusCreated]
           ELSE [repo |-> rp, status |-> StatusNotFound]
      [] h = "AuthzLookupUser" ->
           [repo |-> rp,
            status |-> IF "bob" \in rp.users THEN StatusNoContent ELSE StatusNotFound]
      [] h = "AuthzAuthUser" ->
           [repo |-> rp,
            status |-> IF "bob" \in rp.users THEN StatusNoContent ELSE StatusForbidden]
      [] OTHER -> [repo |-> rp, status |-> StatusOK]

\* what a handler gets from decoding the body of an accepted request
DecodeBody(body) ==
    IF body.nil THEN [b |-> <<>>, err |-> FALSE, body |-> body] ELSE ReadAll(body)

\* the guard every secured handler and middleware starts with:
\* if err := Verify(r); err != nil { answer 401; return }
VerifyPassedAlways(err) == TRUE

VerifyPassed(err) == err = Nil

\* writeAuthError: 401 with the text of the error Verify returned
writeAuthError(err) == [status |-> StatusUnauthorized, msg |-> err]

\* One secured handler from its first to its last statement: Verify, then the
\* checks on the content type and the body, then the ApiServer operation.
\* ctOK says whether the Content-Type is the one the handler accepts.
RestHandlerCall(h, ctOK) ==
    /\ res.op = "none"
    /\ ~sent.read
    /\ multiAuth.ok
    /\ sent.kind # "none"
    /\ \E order \in Orders(DOMAIN multiAuth.authenticators) :
          LET v    == MultiVerify(multiAuth.authenticators, req, now, order)
              rd   == DecodeBody(v.body)
              read == VerifyPassed(v.err) /\ h \in BodyHandlers /\ ctOK
              call == read => (~rd.err /\ rd.b # <<>>)
              ran  == VerifyPassed(v.err) /\ (h \in BodyHandlers => ctOK) /\ call
              out  == ApiCall(h, repo)
              http == IF ~VerifyPassed(v.err) THEN writeAuthError(v.err)
                      ELSE IF h \in BodyHandlers /\ ~ctOK
                      THEN [status |-> IF h = "EnsureUser" THEN StatusUnsupportedMediaType
                                       ELSE StatusForbidden,
                            msg |-> "rejected before the operation"]
                      ELSE IF ~call
                      THEN [status |-> StatusBadRequest, msg |-> "invalid body"]
                      ELSE [status |-> out.status, msg |-> ""]
          IN  /\ req' = [req EXCEPT !.body = IF read THEN rd.body ELSE v.body]
              /\ res' = [NoRes EXCEPT !.op = h, !.err = v.err, !.at = now,
                                      !.before = req.body, !.status = http.status,
                                      !.msg = http.msg, !.ran = ran, !.repo0 = repo]
              /\ repo' = IF ran THEN out.repo ELSE repo
              /\ down' = IF read /\ ~v.body.nil
                         THEN [done |-> TRUE, b |-> rd.b, err |-> rd.err] ELSE NoDown
              /\ sent' = IF read /\ ~v.body.nil
                         THEN [sent EXCEPT !.accepted = FALSE, !.read = TRUE] ELSE sent
    /\ UNCHANGED <<Built, Others, now>>

\* WithAuthChi of the three authenticators: Verify, then either the terse 401
\* or the next handler (the one of the tests answers 200 "ok")
ChiVerify(which, r, clock, order) ==
    CASE which = "hmac" -> HMACVerify(hmacAuth, r, clock)
      [] which = "bearer" -> BearerVerify(bearerAuth, r)
      [] OTHER -> [err |-> MultiVerify(multiAuth.authenticators, r, clock, order).err,
                   body |-> MultiVerify(multiAuth.authenticators, r, clock, order).body]

WithAuthChi(which) ==
    /\ res.op = "none"
    /\ ~sent.read
    /\ sent.kind # "none"
    /\ CASE which = "hmac" -> hmacAuth.ok
         [] which = "bearer" -> bearerAuth.ok
         [] OTHER -> multiAuth.ok
    /\ \E order \in (IF which = "multi" THEN Orders(DOMAIN multiAuth.authenticators)
                     ELSE {<<>>}) :
          LET v == ChiVerify(which, req, now, order)
          IN  /\ req' = [req EXCEPT !.body = v.body]
              /\ res' = [NoRes EXCEPT !.op = "chi", !.err = v.err, !.at = now,
                                      !.before = req.body, !.consulted = <<which>>,
                                      !.status = IF ~VerifyPassed(v.err)
                                                 THEN StatusUnauthorized ELSE StatusOK,
                                      !.msg = IF ~VerifyPassed(v.err) THEN "unauthorized"
                                              ELSE "ok",
                                      !.ran = VerifyPassed(v.err), !.repo0 = repo]
    /\ down' = NoDown
    /\ UNCHANGED <<Built, Others, repo, now, sent>>

Next ==
    \/ \E k \in KeyIds, q \in {"", "x=1"}, strm \in Streams,
          off \in {0 - hmacAuth.window - 1, 0 - hmacAuth.window, 0,
                   hmacAuth.window, hmacAuth.window + 1} :
          SignRequest(k, q, off, strm)
    \/ \E k \in KeyIds, chars \in {S1, S2, S3, S4, <<>>}, strm \in {NilBody, NewReader(<<1>>)} :
          BearerRequest(k, chars, strm)
    \/ \E k \in {"", "k1", "k3"}, a \in RawAuthz,
          ts \in {NoTs, BadTs, Rfc3339(now, "Z"), Rfc3339(now - hmacAuth.window - 1, "Z")},
          sha \in {NoSha, JunkSha, Sha256Hex(<<>>)}, strm \in {NewReader(<<1>>)} :
          RawRequest(k, a, ts, sha, strm)
    \/ Tamper
    \/ Resend
    \/ Done
    \/ Tick
    \/ HMACVerifyCall
    \/ BearerVerifyCall
    \/ MultiVerifyCall
    \/ DownstreamRead

Spec == Init /\ [][Next]_vars

\* The server behind its REST layer: requests arrive at the secured handlers and
\* at the WithAuthChi middlewares instead of at Verify directly.
NextRest ==
    \/ \E off \in {0, hmacAuth.window + 1},
          strm \in {NilBody, NewReader(<<1>>), [NewReader(<<1, 2>>) EXCEPT !.failAt = 1]} :
          SignRequest("k1", "", off, strm)
    \/ \E k \in {"k1", "k3"}, chars \in {S1, S4} : BearerRequest(k, chars, NewReader(<<1>>))
    \/ \E a \in RawAuthz, ts \in {NoTs, Rfc3339(now, "Z")}, sha \in {NoSha, Sha256Hex(<<>>)} :
          RawRequest("k1", a, ts, sha, NewReader(<<1>>))
    \/ Tamper
    \/ Resend
    \/ Done
    \/ Tick
    \/ \E h \in RestHandlers, ctOK \in BOOLEAN : RestHandlerCall(h, ctOK)
    \/ \E which \in {"hmac", "bearer", "multi"} : WithAuthChi(which)

SpecRest == Init /\ [][NextRest]_vars

\* ------------------------------------------------------------- concurrency
\* net/http serves every request on its own goroutine, and all of them call
\* Verify and Supports on the same authenticator objects. A call is split
\* where it reads the shared object: the lookup in the secrets map (for the
\* MultiAuthenticator after the range over its authenticators), then the rest
\* of the checks, which read the window and the clock.

\* `secret, ok := s.accessSecrets[apiKey]` reads the map and leaves it as it is
\* (faulty variant: the entry is dropped once it has been looked up)
AfterLookupForget(auth, k) ==
    [auth EXCEPT !.accessSecrets =
        [x \in DOMAIN auth.accessSecrets \ {k} |-> auth.accessSecrets[x]]]

AfterLookup(auth, k) == auth

\* what the sequential request path holds
Sequential == <<repo, req, sent, res, down>>

\* a request signed by a client that knows the configured secret of key k
SignedFor(k, t, p, strm) ==
    LET url == [path |-> "/a", query |-> ""]
        ts  == Rfc3339(t, "Z")
        mac == ClientSign(NewHMACAuthenticator(cfg).accessSecrets[k], "GET", url, ts, strm.data)
    IN  [method |-> "GET", url |-> [url EXCEPT !.path = p], apiKey |-> k,
         authz |-> Authz("HMAC ", MacCred(mac, FALSE)), ts |-> ts,
         bodySHA |-> Sha256Hex(strm.data), body |-> strm]

\* the requests the concurrent clients send at time t
ConcRequests(t) ==
    (IF NewHMACAuthenticator(cfg).ok
     THEN {SignedFor(k, t, p, NewReader(<<1>>)) :
              k \in DOMAIN cfg.AccessKeys \cap {"k1"}, p \in Paths}
     ELSE {})
      \cup {[NoReq EXCEPT !.apiKey = "k1", !.authz = Authz("Bearer ", HexCred(S1))],
            [NoReq EXCEPT !.apiKey = "k3", !.authz = Authz("Bearer ", HexCred(S1))],
            NoReq}

Constructed(kind) ==
    CASE kind = "hmac" -> hmacAuth.ok
      [] kind = "bearer" -> bearerAuth.ok
      [] OTHER -> multiAuth.ok

\* a goroutine enters Verify with its own request
CallStart(w, kind, r) ==
    /\ calls[w].pc = "idle"
    /\ Constructed(kind)
    /\ \E order \in (IF kind = "multi" THEN Orders(DOMAIN multiAuth.authenticators)
                     ELSE {<<>>}) :
          calls' = [calls EXCEPT ![w] = [NoCall EXCEPT !.pc = "start", !.op = "Verify",
                                                       !.kind = kind, !.r = r,
                                                       !.order = order]]
    /\ UNCHANGED <<Built, Sequential, hasher, now, App>>

\* the call up to and including the lookup of the key
CallLookup(w) ==
    LET c     == calls[w]
        f     == IF c.kind = "multi" THEN FirstSupporting(c.order, c.r) ELSE 0
        early == IF c.kind # "multi" THEN Nil
                 ELSE IF AuthzEmpty(c.r.authz) THEN ErrMissingAuthz
                 ELSE IF f = 0 THEN ErrNotSupported ELSE Nil
        inner == IF c.kind = "multi" THEN c.order[f] ELSE c.kind
        auth  == CASE c.kind = "hmac" -> hmacAuth
                   [] c.kind = "bearer" -> bearerAuth
                   [] OTHER -> multiAuth.authenticators[inner]
        v     == AuthVerify(inner, auth, c.r, now)
        looked == early = Nil /\ v.err # ErrMissingHeaders
        after == AfterLookup(auth, c.r.apiKey)
    IN  /\ c.pc = "start"
        /\ calls' = [calls EXCEPT ![w] =
              IF early # Nil
              THEN [c EXCEPT !.pc = "done", !.err = early, !.body = c.r.body, !.clock = now]
              ELSE IF v.err \in {ErrMissingHeaders, ErrUnknownKey}
              THEN [c EXCEPT !.pc = "done", !.inner = inner, !.err = v.err,
                             !.body = v.body, !.clock = now]
              ELSE [c EXCEPT !.pc = "check", !.inner = inner,
                             !.secret = auth.accessSecrets[c.r.apiKey]]]
        /\ hmacAuth' = IF looked /\ c.kind = "hmac" THEN after ELSE hmacAuth
        /\ bearerAuth' = IF looked /\ c.kind = "bearer" THEN after ELSE bearerAuth
        /\ multiAuth' = IF looked /\ c.kind = "multi"
                        THEN [multiAuth EXCEPT !.authenticators[inner] = after]
                        ELSE multiAuth
        /\ UNCHANGED <<cfg, buildErr, Sequential, hasher, now, App>>

\* the rest of the call, with the secret it looked up, the window of the
\* authenticator and the clock as they are now
CallCheck(w) ==
    LET c    == calls[w]
        auth == CASE c.kind = "hmac" -> hmacAuth
                  [] c.kind = "bearer" -> bearerAuth
                  [] OTHER -> multiAuth.authenticators[c.inner]
        view == [ok |-> TRUE, window |-> auth.window,
                 accessSecrets |-> [k \in {c.r.apiKey} |-> c.secret]]
        v    == AuthVerify(c.inner, view, c.r, now)
    IN  /\ c.pc = "check"
        /\ calls' = [calls EXCEPT ![w] = [c EXCEPT !.pc = "done", !.err = v.err,
                                                   !.body = v.body, !.clock = now]]
        /\ UNCHANGED <<Built, Sequential, hasher, now, App>>

\* Supports: one look at the Authorization header (for the MultiAuthenticator
\* through the range over its authenticators)
CallSupports(w, kind, r) ==
    /\ calls[w].pc = "idle"
    /\ Constructed(kind)
    /\ calls' = [calls EXCEPT ![w] =
          [NoCall EXCEPT !.pc = "done", !.op = "Supports", !.kind = kind, !.r = r,
                         !.body = r.body, !.clock = now,
                         !.supports = CASE kind = "hmac" -> HMACSupports(r)
                                        [] kind = "bearer" -> BearerSupports(r)
                                        [] OTHER -> MultiSupports(multiAuth.authenticators, r)]]
    /\ UNCHANGED <<Built, Sequential, hasher, now, App>>

\* the call returns to its handler
CallReturn(w) ==
    /\ calls[w].pc = "done"
    /\ calls' = [calls EXCEPT ![w] = NoCall]
    /\ UNCHANGED <<Built, Sequential, hasher, now, App>>

NextConc ==
    \/ \E w \in Workers, kind \in {"hmac", "bearer", "multi"}, r \in ConcRequests(now) :
          CallStart(w, kind, r)
    \/ \E w \in Workers : CallLookup(w)
    \/ \E w \in Workers : CallCheck(w)
    \/ \E w \in Workers, kind \in {"hmac", "bearer", "multi"}, r \in ConcRequests(now) :
          CallSupports(w, kind, r)
    \/ \E w \in Workers : CallReturn(w)
    \/ Tick

SpecConc == Init /\ [][NextConc]_vars

\* ------------------------------------------------------------ hasher calls
\* plaintexts, algorithms, optional parameters and random sources of the calls
Plaintexts == {<<>>, <<"p">>}
Attempts == {<<>>, <<"p">>, <<"q">>}
HashAlgos == SupportedAlgorithms \cup {<<"crypt-", "bcrypt">>, <<"raw-", "crc32">>}
RoundsArgs == {<<>>, <<MinRounds - 1>>, <<MinRounds>>, <<MaxRounds>>, <<MaxRounds + 1>>}
SaltLenArgs == {<<>>, <<0>>, <<1>>, <<MaxSaltLen>>, <<MaxSaltLen + 1>>}
Rngs == {[fail |-> FALSE, bytes |-> <<0, 64>>], [fail |-> FALSE, bytes |-> <<12, 255>>],
         [fail |-> TRUE, bytes |-> <<0>>]}

\* what can stand in the place of a stored hash h: h itself, h in other
\* letter case, h with spaces around it, h cut or extended by one character,
\* and texts that no Hash call produced
StoredTexts(h) ==
    {h, ToUpper(h), <<" ">> \o h \o <<" ">>, Truncate(h, Len(h) - 1), h \o <<"0">>,
     <<"g">> \o Truncate(h, Len(h) - 1),
     IF h = <<>> THEN h ELSE <<ToUpperChar(h[1])>> \o SubSeq(h, 2, Len(h)),
     IF h = <<>> THEN h ELSE <<"1">> \o SubSeq(h, 2, Len(h)),
     <<>>, <<"$", "6", "$">>, <<"$", "9", "$", "a">>, <<"$", "1">>,
     <<"$", "5", "$">> \o roundsTag \o <<"x", "$", "a", "$", "b">>,
     <<"$", "1", "$">> \o HexSum(<<>>, HexLenMD5 - 3),
     <<"$", "6", "$", "a", "b", "$", "p", "|", "a", "b", "|", "5", "0", "0", "0", "|", "6">>}

HasherIdle == <<Built, Sequential, calls, now, App>>

HashCall(rr, plain, alg, rounds, saltLen) ==
    /\ hasher.call = "none"
    /\ hasher' = [NoHasher EXCEPT !.call = "Hash", !.plain = plain, !.alg = alg,
                                  !.rounds = rounds, !.saltLen = saltLen, !.rr1 = rr,
                                  !.h1 = Hash(rr, plain, alg, rounds, saltLen)]
    /\ UNCHANGED HasherIdle

\* the same call once more; the random source has moved on or not
HashAgain(rr) ==
    /\ hasher.call = "Hash"
    /\ hasher' = [hasher EXCEPT !.call = "HashAgain", !.rr2 = rr,
                                !.h2 = Hash(rr, hasher.plain, hasher.alg, hasher.rounds,
                                            hasher.saltLen)]
    /\ UNCHANGED HasherIdle

VerifyCall(stored, attempt) ==
    /\ hasher.call = "Hash"
    /\ hasher' = [hasher EXCEPT !.call = "Verify", !.stored = stored, !.attempt = attempt,
                                !.v = HasherVerify(stored, attempt)]
    /\ UNCHANGED HasherIdle

DetectCall(stored) ==
    /\ hasher.call = "Hash"
    /\ hasher' = [hasher EXCEPT !.call = "Detect", !.stored = stored,
                                !.v = [verified |-> FALSE, alg |-> DetectHashAlgo(stored).alg,
                                       err |-> DetectHashAlgo(stored).err]]
    /\ UNCHANGED HasherIdle

\* the caller has used the results and turns to the next password
HasherReturn ==
    /\ hasher.call # "none"
    /\ hasher' = NoHasher
    /\ UNCHANGED HasherIdle

NextHasher ==
    \/ HasherReturn
    \/ \E rr \in Rngs, plain \in Plaintexts, alg \in HashAlgos, rounds \in RoundsArgs,
          saltLen \in SaltLenArgs : HashCall(rr, plain, alg, rounds, saltLen)
    \/ \E rr \in Rngs : HashAgain(rr)
    \/ \E stored \in StoredTexts(hasher.h1.hash), attempt \in Attempts :
          VerifyCall(stored, attempt)
    \/ \E stored \in StoredTexts(hasher.h1.hash) : DetectCall(stored)

InitHasher == Init /\ cfg.EnabledAuthenticators = <<"bearer">>

SpecHasher == InitHasher /\ [][NextHasher]_vars

\* ------------------------------------------------------------ API server calls
ApiIdle == <<Built, Sequential, calls, hasher, ops, now>>

\* what every call records: what it was given and what the server held
Called(op) == [NoApi EXCEPT !.op = op, !.before = accounts, !.fsBefore = fs, !.at = now]

EnsureGroupCall(rg) ==
    /\ api.op = "none"
    /\ LET out == EnsureGroup(accounts, fs, rg)
       IN  /\ accounts' = out.repo
           /\ fs' = out.fs
           /\ api' = [Called("EnsureGroup") EXCEPT !.name = rg.Groupname, !.rg = rg,
                                                   !.err = out.err, !.created = out.created]
    /\ UNCHANGED ApiIdle

EnsureUserCall(rr, ru) ==
    /\ api.op = "none"
    /\ LET out == EnsureUser(accounts, fs, rr, ru)
       IN  /\ accounts' = out.repo
           /\ fs' = out.fs
           /\ api' = [Called("EnsureUser") EXCEPT !.name = ru.Username, !.ru = ru, !.rr = rr,
                                                  !.err = out.err, !.created = out.created]
    /\ UNCHANGED ApiIdle

UpdateUserCall(rr, username, kind) ==
    /\ api.op = "none"
    /\ LET out == ApiUpdateUser(accounts, rr, username, kind)
       IN  /\ accounts' = out.repo
           /\ api' = [Called("UpdateUser") EXCEPT !.name = username, !.kind = kind,
                                                  !.rr = rr, !.err = out.err]
    /\ UNCHANGED <<ApiIdle, fs>>

DeleteUserCall(username) ==
    /\ api.op = "none"
    /\ LET out == ApiDeleteUser(accounts, username)
       IN  /\ accounts' = out.repo
           /\ api' = [Called("DeleteUser") EXCEPT !.name = username, !.err = out.err]
    /\ UNCHANGED <<ApiIdle, fs>>

AuthzAuthUserCall(username, password) ==
    /\ api.op = "none"
    /\ api' = [Called("AuthzAuthUser") EXCEPT
                  !.name = username, !.password = password,
                  !.err = AuthzAuthUser(accounts, now, username, password)]
    /\ UNCHANGED <<ApiIdle, accounts, fs>>

\* the caller has the answer and turns to the next call
ApiReturn ==
    /\ api.op # "none"
    /\ api' = NoApi
    /\ UNCHANGED <<ApiIdle, accounts, fs>>

\* the clock of the API server
ApiTick ==
    /\ api.op = "none"
    /\ now < MaxNow
    /\ now' = now + 1
    /\ UNCHANGED <<Built, Sequential, calls, hasher, ops, accounts, api, fs>>

\* the random source of the API server's hasher: one that delivers, one that fails
GoodRng == [fail |-> FALSE, bytes |-> <<0, 64>>]
ApiRngs == {GoodRng, [fail |-> TRUE, bytes |-> <<0>>]}

\* accounts and logins: one group, one user whose group, lock state and
\* password vary, logins by that user, by nobody and by somebody unknown
AuthzGroups == {GroupInfo("g1", MinGID, RelPath(<<"g">>))}
AuthzUsers ==
    {UserInfo("alice", 0, g, pw, FALSE, RelPath(<<"u">>), e, d) :
        g \in {"g1", "g2"}, pw \in {<<>>, <<"p">>}, e \in {<<>>, <<ExpireAt>>},
        d \in BOOLEAN}
    \cup {UserInfo("alice", 0, "g1", <<"x">>, TRUE, RelPath(<<"u">>), <<>>, FALSE)}
LoginNames == {"", "alice", "bob"}

NextAuthz ==
    \/ ApiReturn
    \/ ApiTick
    \/ \E rg \in AuthzGroups : EnsureGroupCall(rg)
    \/ \E rr \in ApiRngs, ru \in AuthzUsers : EnsureUserCall(rr, ru)
    \/ \E rr \in ApiRngs, kind \in Mutations : UpdateUserCall(rr, "alice", kind)
    \/ \E n \in LoginNames : DeleteUserCall(n)
    \/ \E n \in LoginNames, pw \in Attempts : AuthzAuthUserCall(n, pw)

InitApi == Init /\ cfg.EnabledAuthenticators = <<"bearer">>

SpecAuthz == InitApi /\ [][NextAuthz]_vars

\* groups and users to ensure: a group asked for with several ids and homes
\* (one of them outside the base directory), users asked for with explicit
\* and automatic ids, as plaintext and as hash, enabled and disabled
EnsureGroups ==
    {GroupInfo("g1", gid, h) : gid \in {MinGID - 1, MinGID, MinGID + 1},
                               h \in {RelPath(<<"g">>), RelPath(<<"..", "x">>)}}
    \cup {GroupInfo("g2", MinGID, RelPath(<<"g">>)), GroupInfo("", MinGID, RelPath(<<"g">>))}
HashOfP == DefaultHash(GoodRng, <<"p">>).hash
EnsureUsers ==
    {UserInfo("alice", uid, "g1", pw[1], pw[2], RelPath(<<"u">>), <<>>, d) :
        uid \in {0, MinUID - 1, MinUID + 1},
        pw \in {<< <<"p">>, FALSE >>, << <<"q">>, FALSE >>, <<HashOfP, TRUE>>},
        d \in BOOLEAN}
    \cup {UserInfo("bob", uid, "g1", <<"p">>, FALSE, RelPath(<<"u">>), <<>>, FALSE) :
             uid \in {0, MinUID, MinUID + 1}}
    \cup {UserInfo("carol", 0, "g2", <<"p">>, FALSE, RelPath(<<"u">>), <<>>, FALSE)}
EnsureNames == {"alice", "bob", "carol"}

NextEnsure ==
    \/ ApiReturn
    \/ \E rg \in EnsureGroups : EnsureGroupCall(rg)
    \/ \E ru \in EnsureUsers : EnsureUserCall(GoodRng, ru)
    \/ \E n \in EnsureNames : DeleteUserCall(n)

SpecEnsure == InitApi /\ [][NextEnsure]_vars

\* updates of a user created with one password: the user is disabled and
\* enabled, its expiration set and cleared, and logs in as time passes
OriginalPassword == <<"p">>
UpdateUsers ==
    {UserInfo("alice", 0, "g1", OriginalPassword, FALSE, RelPath(<<"u">>), e, d) :
        e \in {<<>>, <<ExpireAt>>}, d \in BOOLEAN}
LockMutations == Mutations \ {"password"}

NextUpdate ==
    \/ ApiReturn
    \/ ApiTick
    \/ \E rg \in AuthzGroups : EnsureGroupCall(rg)
    \/ \E ru \in UpdateUsers : EnsureUserCall(GoodRng, ru)
    \/ \E n \in {"alice", "bob"}, kind \in LockMutations : UpdateUserCall(GoodRng, n, kind)
    \/ \E n \in {"alice", "bob"}, pw \in {OriginalPassword, NewPassword} :
          AuthzAuthUserCall(n, pw)

SpecUpdate == InitApi /\ [][NextUpdate]_vars

\* ----------------------------------------------------- storage service calls
\* the storage service called with homes and top directories of every kind:
\* relative, with "..", nested, absolute
FsGroups ==
    {GroupInfo("g1", MinGID, h) :
        h \in {RelPath(<<"g">>), RelPath(<<"..", "x">>), AbsPath(<<"e">>)}}
FsUsers ==
    {UserInfo("alice", MinUID, "g1", <<>>, FALSE, h, <<>>, FALSE) :
        h \in {RelPath(<<"u">>), RelPath(<<"..", "v">>), AbsPath(<<"e">>)}}
FsTopDirs ==
    {RelPath(<<"t">>), RelPath(<<"..", "w">>), RelPath(<<"t", "s">>), AbsPath(<<"e">>)}

FsCalled(op, out, u, g) ==
    /\ api.op = "none"
    /\ fs' = out.fs
    /\ api' = [Called(op) EXCEPT !.ru = u, !.rg = g, !.err = out.err]
    /\ UNCHANGED <<ApiIdle, accounts>>

PrepareGroupHomeCall(g) ==
    FsCalled("PrepareGroupHome", PrepareGroupHome(fs, g), NoUser, g)

PrepareUserHomeCall(u, g) ==
    FsCalled("PrepareUserHome", PrepareUserHome(fs, u, g), u, g)

CreateUserTopDirCall(u, g, topDir) ==
    FsCalled("CreateUserTopDir", CreateUserTopDir(fs, u, g, topDir), u, g)

DeleteUserTopDirCall(u, g, topDir) ==
    FsCalled("DeleteUserTopDir", DeleteUserTopDir(fs, u, g, topDir), u, g)

NextFs ==
    \/ ApiReturn
    \/ \E g \in FsGroups : PrepareGroupHomeCall(g)
    \/ \E u \in FsUsers, g \in FsGroups : PrepareUserHomeCall(u, g)
    \/ \E u \in FsUsers, g \in FsGroups, t \in FsTopDirs : CreateUserTopDirCall(u, g, t)
    \/ \E u \in FsUsers, g \in FsGroups, t \in FsTopDirs : DeleteUserTopDirCall(u, g, t)

SpecFs == InitApi /\ [][NextFs]_vars

\* ------------------------------------------- concurrent repository calls
\* Goroutines call the repository at the same time. AddGroup and AddUser
\* read len(s.groups) or len(s.users) and test it against the limit before
\* they take the lock, and test the name and insert under the lock; the
\* other calls run as a whole under the lock.
RepoIdle == <<Built, Sequential, calls, hasher, api, fs, now>>
ConcGroupNames == {"g1", "g2", "g3"}
ConcUserNames == {"alice", "bob", "carol"}
ConcGroup(n, gid) == GroupInfo(n, gid, RelPath(<<"g">>))
ConcUser(n, d) == UserInfo(n, MinUID, "g1", <<"h">>, TRUE, RelPath(<<"u">>), <<>>, d)

AddGroupStart(w, n) ==
    /\ ops[w].pc = "idle"
    /\ ops' = [ops EXCEPT ![w] = [pc |-> "checked", kind |-> "group", name |-> n,
                                  seen |-> Cardinality(accounts.groups)]]
    /\ UNCHANGED <<RepoIdle, accounts>>

AddGroupFinish(w) ==
    /\ ops[w].pc = "checked"
    /\ ops[w].kind = "group"
    /\ accounts' = AddGroupAfter(accounts, ops[w].seen, ConcGroup(ops[w].name, MinGID)).repo
    /\ ops' = [ops EXCEPT ![w] = NoOp]
    /\ UNCHANGED RepoIdle

AddUserStart(w, n) ==
    /\ ops[w].pc = "idle"
    /\ ops' = [ops EXCEPT ![w] = [pc |-> "checked", kind |-> "user", name |-> n,
                                  seen |-> Cardinality(accounts.users)]]
    /\ UNCHANGED <<RepoIdle, accounts>>

AddUserFinish(w) ==
    /\ ops[w].pc = "checked"
    /\ ops[w].kind = "user"
    /\ accounts' = AddUserAfter(accounts, ops[w].seen, ConcUser(ops[w].name, FALSE)).repo
    /\ ops' = [ops EXCEPT ![w] = NoOp]
    /\ UNCHANGED RepoIdle

UpdateGroupOp(w, n, gid) ==
    /\ ops[w].pc = "idle"
    /\ accounts' = UpdateGroup(accounts, ConcGroup(n, gid)).repo
    /\ UNCHANGED <<RepoIdle, ops>>

UpdateUserOp(w, n, d) ==
    /\ ops[w].pc = "idle"
    /\ accounts' = UpdateUser(accounts, ConcUser(n, d)).repo
    /\ UNCHANGED <<RepoIdle, ops>>

DeleteGroupOp(w, n) ==
    /\ ops[w].pc = "idle"
    /\ accounts' = DeleteGroup(accounts, n).repo
    /\ UNCHANGED <<RepoIdle, ops>>

DeleteUserOp(w, n) ==
    /\ ops[w].pc = "idle"
    /\ accounts' = DeleteUser(accounts, n).repo
    /\ UNCHANGED <<RepoIdle, ops>>

NextRepoConc ==
    \E w \in Workers :
        \/ \E n \in ConcGroupNames : AddGroupStart(w, n)
        \/ AddGroupFinish(w)
        \/ \E n \in ConcUserNames : AddUserStart(w, n)
        \/ AddUserFinish(w)
        \/ \E gid \in {MinGID, MinGID + 1} : UpdateGroupOp(w, "g1", gid)
        \/ \E d \in BOOLEAN : UpdateUserOp(w, "alice", d)
        \/ \E n \in ConcGroupNames : DeleteGroupOp(w, n)
        \/ \E n \in ConcUserNames : DeleteUserOp(w, n)

SpecRepoConc == InitApi /\ [][NextRepoConc]_vars

\* ------------------------------------------------------------------ claims
\* the request as it was when the last Verify was called (Verify and the
\* handler's read change nothing but the body)
Verified == [req EXCEPT !.body = res.before]

Abs(x) == IF x < 0 THEN 0 - x ELSE x

\* the request carries the signature a client computes with the secret of its
\* X-Api-Key over its own method, path, query, timestamp and body, the body
\* digest header matches the body, and the timestamp is inside the window
ValidSigned(r, clock) ==
    /\ r.apiKey # ""
    /\ r.apiKey \in DOMAIN cfg.AccessKeys
    /\ ~ReadAll(r.body).err
    /\ r.authz.prefix = "HMAC "
    /\ r.authz.cred.kind = "mac"
    /\ [key |-> r.authz.cred.key, msg |-> r.authz.cred.msg]
          = ClientSign(DecodeString(TrimSpace(cfg.AccessKeys[r.apiKey])).bytes,
                       r.method, r.url, r.ts, ReadAll(r.body).b)
    /\ r.bodySHA.kind = "digest"
    /\ r.bodySHA.of = ReadAll(r.body).b
    /\ r.ts.kind = "rfc3339"
    /\ Abs(clock - r.ts.t) <= HMACWindow(cfg)

\* C1: HMAC Verify returns nil for every correctly signed request whose body
\* digest header matches and whose timestamp is inside the window, and returns
\* an error once the method, the path, the query, the timestamp or the body
\* was changed after signing.
C1_SignedAcceptedChangedRejected ==
    res.op = "hmac" =>
        /\ ValidSigned(Verified, res.at) => res.err = Nil
        /\ (sent.kind = "signed"
              /\ sent.tampered \in {"method", "path", "query", "ts", "body", "body+sha"})
             => res.err # Nil

C1_Witness ==
    /\ res.op = "hmac"
    /\ ValidSigned(Verified, res.at)
    /\ res.before.data = <<1, 2>>
    /\ req.url.query = "x=1"
    /\ res.err = Nil

\* the checks before the window check all passed
ReachedWindowCheck(r) ==
    /\ r.apiKey # "" /\ r.authz # NoAuthz /\ r.ts.kind # "none" /\ r.bodySHA.kind # "none"
    /\ r.apiKey \in DOMAIN cfg.AccessKeys
    /\ r.authz.prefix = "HMAC "
    /\ r.ts.kind = "rfc3339"

\* C2: with window W and skew d = now - timestamp, the window check rejects
\* with "timestamp outside allowed window" exactly when d > W or d < -W; a skew
\* of exactly W in either direction passes.
C2_WindowSymmetricInclusive ==
    (res.op = "hmac" /\ ReachedWindowCheck(Verified)) =>
        LET d == res.at - req.ts.t
            W == HMACWindow(cfg)
        IN  (res.err = ErrWindow) <=> ~(0 - W <= d /\ d <= W)

C2_Witness ==
    /\ res.op = "hmac"
    /\ ReachedWindowCheck(Verified)
    /\ Abs(res.at - req.ts.t) = HMACWindow(cfg)
    /\ res.err = Nil

\* C3 as stated: a request signed for key-id K and path P is rejected once
\* X-Api-Key was changed to any other value or the path was changed.
C3_KeyOrPathChangedRejected ==
    (res.op = "hmac" /\ sent.kind = "signed" /\ sent.tampered \in {"apikey", "path"})
        => res.err # Nil

\* the secrets of two configured key-ids are the same HMAC key
SameHmacKey(k1, k2) ==
    HmacSha256(DecodeString(TrimSpace(cfg.AccessKeys[k1])).bytes, <<>>)
        = HmacSha256(DecodeString(TrimSpace(cfg.AccessKeys[k2])).bytes, <<>>)

\* C3 amended: the request is rejected once the path was changed, or
\* X-Api-Key was changed to an absent or unknown id or to a configured key-id
\* whose secret is a different HMAC key.
C3_KeyWithOtherSecretOrPathRejected ==
    (res.op = "hmac" /\ sent.kind = "signed") =>
        /\ sent.tampered = "path" => res.err # Nil
        /\ (sent.tampered = "apikey"
              /\ (req.apiKey = "" \/ req.apiKey \notin DOMAIN cfg.AccessKeys
                    \/ ~SameHmacKey(req.apiKey, sent.key)))
             => res.err # Nil

C3_Witness ==
    /\ res.op = "hmac"
    /\ sent.kind = "signed"
    /\ sent.tampered = "apikey"
    /\ req.apiKey \in DOMAIN cfg.AccessKeys
    /\ req.apiKey # ""
    /\ res.err = ErrBadSignature

\* C4: a request that HMAC Verify accepted once is accepted by every later
\* Verify while |now - timestamp| <= window and rejected with "timestamp
\* outside allowed window" once |now - timestamp| > window.
C4_ReplayUntilWindowEnds ==
    (res.op = "hmac" /\ res.replay) =>
        res.err = IF Abs(res.at - req.ts.t) <= HMACWindow(cfg) THEN Nil ELSE ErrWindow

C4_Witness ==
    /\ res.op = "hmac"
    /\ res.replay
    /\ res.before.data # <<>>
    /\ res.err = ErrWindow

\* C5: after HMAC Verify returned nil or an error other than the body read
\* error, a full read of the body yields what a full read before the call
\* would have yielded, and a second Verify returns what the first returned.
C5_BodyIntactAfterVerify ==
    (res.op = "hmac" /\ res.err # ErrBodyRead) =>
        /\ down.done =>
              /\ down.b = ReadAll(res.before).b
              /\ down.err = ReadAll(res.before).err
        /\ ~down.done =>
              /\ ReadAll(req.body).b = ReadAll(res.before).b
              /\ ReadAll(req.body).err = ReadAll(res.before).err
              /\ HMACVerify(hmacAuth, req, res.at).err = res.err

C5_Witness ==
    /\ res.op = "hmac"
    /\ res.err = Nil
    /\ down.done
    /\ down.b = <<1, 2>>

\* C6: when reading the body fails partway, HMAC Verify returns an error and
\* does not leave the body stream partially consumed: a reader after the call
\* finds it where a reader before the call would have.
C6_FailClosedBodyConsistent ==
    (res.op = "hmac" /\ res.err = ErrBodyRead /\ ~down.done) =>
        /\ res.err # Nil
        /\ req.body.pos = res.before.pos

\* C7 as stated: HMAC Verify fails with "missing auth headers" whenever
\* X-Api-Key, an Authorization value beginning with "HMAC ", X-Timestamp or
\* X-Content-Sha256 is absent, whatever the other headers contain.
C7_AnyRequiredInputMissing ==
    (res.op = "hmac"
       /\ (req.apiKey = "" \/ req.authz.prefix # "HMAC " \/ req.ts.kind = "none"
             \/ req.bodySHA.kind = "none"))
        => res.err = ErrMissingHeaders

\* C7 amended: HMAC Verify fails with "missing auth headers" whenever the
\* X-Api-Key, Authorization, X-Timestamp or X-Content-Sha256 header is absent or
\* empty, whatever the others contain; when all four are present and
\* Authorization does not begin with "HMAC ", it fails with "unknown api key"
\* for a key-id that is not configured and with "invalid auth scheme" otherwise.
C7_MissingHeaderOrWrongScheme ==
    res.op = "hmac" =>
        /\ (req.apiKey = "" \/ req.authz = NoAuthz \/ req.ts.kind = "none"
              \/ req.bodySHA.kind = "none")
             => res.err = ErrMissingHeaders
        /\ (req.apiKey # "" /\ req.authz # NoAuthz /\ req.ts.kind # "none"
              /\ req.bodySHA.kind # "none" /\ req.authz.prefix # "HMAC ")
             => res.err = IF req.apiKey \in DOMAIN cfg.AccessKeys
                          THEN ErrInvalidScheme ELSE ErrUnknownKey

C7_Witness ==
    /\ res.op = "hmac"
    /\ req.apiKey \in DOMAIN cfg.AccessKeys
    /\ req.authz.prefix = "Bearer "
    /\ req.ts.kind = "rfc3339"
    /\ req.bodySHA.kind = "digest"
    /\ res.err = ErrInvalidScheme

\* C8: Bearer Verify returns nil iff X-Api-Key names a configured key and the
\* text after "Bearer " is, character for character, the configured hex secret
\* of that key; the same hex in another letter case is rejected.
C8_BearerExactSecret ==
    res.op = "bearer" =>
        ((res.err = Nil) <=>
            /\ req.apiKey # ""
            /\ req.apiKey \in DOMAIN cfg.AccessKeys
            /\ req.authz.prefix = "Bearer "
            /\ req.authz.cred.kind = "hex"
            /\ req.authz.cred.chars = TrimSpace(cfg.AccessKeys[req.apiKey]))

C8_Witness ==
    /\ res.op = "bearer"
    /\ req.apiKey \in DOMAIN cfg.AccessKeys
    /\ req.authz.cred.chars = S2
    /\ TrimSpace(cfg.AccessKeys[req.apiKey]) = S1
    /\ res.err = ErrNotVerified

\* C9: Multi Verify fails with the missing-header error, consulting no
\* authenticator, when Authorization is empty; otherwise it returns what Verify
\* of a held authenticator that supports the request returns; when no held
\* authenticator supports it (also a scheme that was not enabled) it fails with
\* "authorization scheme not supported".
C9_MultiDispatch ==
    res.op = "multi" =>
        LET auths == multiAuth.authenticators
            supporting == {n \in DOMAIN auths :
                             \/ n = "hmac" /\ req.authz.prefix = "HMAC "
                             \/ n = "bearer" /\ req.authz.prefix = "Bearer "}
        IN  IF req.authz = NoAuthz
            THEN res.err = ErrMissingAuthz /\ res.consulted = <<>>
            ELSE IF supporting = {}
            THEN res.err = ErrNotSupported
            ELSE \E n \in supporting :
                    /\ res.err = AuthVerify(n, auths[n], Verified, res.at).err
                    /\ ~sent.read => req.body = AuthVerify(n, auths[n], Verified, res.at).body

C9_Witness ==
    /\ res.op = "multi"
    /\ sent.kind = "signed"
    /\ sent.tampered = "none"
    /\ "hmac" \notin DOMAIN multiAuth.authenticators
    /\ "bearer" \in DOMAIN multiAuth.authenticators
    /\ res.err = ErrNotSupported

\* C10: at most one authenticator supports a request (HMAC iff Authorization
\* begins with "HMAC ", Bearer iff it begins with "Bearer "), so Supports and
\* Verify of the MultiAuthenticator give the same result for every iteration
\* order of the authenticator map.
C10_OrderIndependent ==
    (multiAuth.ok /\ sent.kind # "none") =>
        LET auths == multiAuth.authenticators
        IN  /\ HMACSupports(req) <=> req.authz.prefix = "HMAC "
            /\ BearerSupports(req) <=> req.authz.prefix = "Bearer "
            /\ ~(HMACSupports(req) /\ BearerSupports(req))
            /\ \A o1, o2 \in Orders(DOMAIN auths) :
                  /\ (FirstSupporting(o1, req) # 0) = MultiSupports(auths, req)
                  /\ MultiVerify(auths, req, now, o1).err = MultiVerify(auths, req, now, o2).err
            /\ res.op = "multi" =>
                  \A o \in Orders(DOMAIN auths) :
                      MultiVerify(auths, Verified, res.at, o).err = res.err

C10_Witness ==
    /\ res.op = "multi"
    /\ res.order = <<"bearer", "hmac">>
    /\ res.consulted = <<"bearer", "hmac">>
    /\ sent.kind = "signed"
    /\ res.err = Nil


\* a key-id whose configured secret is empty after trimming or is not valid hex
Offending(k) ==
    \/ TrimSpace(cfg.AccessKeys[k]) = <<>>
    \/ DecodeString(TrimSpace(cfg.AccessKeys[k])).err

OffendingKeys == {k \in DOMAIN cfg.AccessKeys : Offending(k)}

\* a failed construction: no authenticator, and an error naming an offending key
FailedNaming(auth, err) ==
    /\ ~auth.ok
    /\ auth.accessSecrets = <<>>
    /\ err.kind # "nil"
    /\ err.key \in OffendingKeys
    /\ (err.kind = "empty secret for key") = (TrimSpace(cfg.AccessKeys[err.key]) = <<>>)

\* a successful construction: exactly the configured key-ids, each with its
\* non-empty secret (bytes for HMAC, the trimmed hex text of them for Bearer)
FullStores ==
    /\ hmacAuth.ok /\ bearerAuth.ok
    /\ buildErr.hmac = NoErr /\ buildErr.bearer = NoErr
    /\ DOMAIN hmacAuth.accessSecrets = DOMAIN cfg.AccessKeys
    /\ DOMAIN bearerAuth.accessSecrets = DOMAIN cfg.AccessKeys
    /\ \A k \in DOMAIN cfg.AccessKeys :
          /\ hmacAuth.accessSecrets[k] = DecodeString(TrimSpace(cfg.AccessKeys[k])).bytes
          /\ Len(hmacAuth.accessSecrets[k]) > 0
          /\ bearerAuth.accessSecrets[k] = TrimSpace(cfg.AccessKeys[k])
          /\ DecodeString(bearerAuth.accessSecrets[k]).bytes = hmacAuth.accessSecrets[k]

\* C11 as stated: all three constructors, NewMultiAuthenticator included, fail
\* naming an offending key-id whenever some configured secret is empty after
\* trimming or not valid hex, and otherwise hold exactly the configured keys.
C11_AllThreeFailOnBadSecret ==
    IF OffendingKeys # {}
    THEN /\ FailedNaming(hmacAuth, buildErr.hmac)
         /\ FailedNaming(bearerAuth, buildErr.bearer)
         /\ ~multiAuth.ok /\ buildErr.multi.key \in OffendingKeys
    ELSE FullStores /\ multiAuth.ok

\* C11 (amended): NewHMACAuthenticator and NewBearerAuthenticator are
\* all-or-nothing over the configured secrets; NewMultiAuthenticator fails,
\* naming an offending key-id, exactly when a secret is offending and the
\* enabled list holds "hmac" or "bearer", and otherwise holds one fully built
\* authenticator per such name.
C11_AllOrNothingWhenBuilt ==
    /\ IF OffendingKeys # {}
       THEN FailedNaming(hmacAuth, buildErr.hmac) /\ FailedNaming(bearerAuth, buildErr.bearer)
       ELSE FullStores
    /\ IF OffendingKeys # {} /\ BuiltNames(cfg.EnabledAuthenticators) # <<>>
       THEN /\ ~multiAuth.ok
            /\ multiAuth.authenticators = <<>>
            /\ buildErr.multi.key \in OffendingKeys
            /\ buildErr.multi.wrap # ""
       ELSE /\ multiAuth.ok
            /\ buildErr.multi = NoErr
            /\ DOMAIN multiAuth.authenticators =
                  {n \in {"hmac", "bearer"} :
                      \E i \in 1..Len(cfg.EnabledAuthenticators) : cfg.EnabledAuthenticators[i] = n}
            /\ \A n \in DOMAIN multiAuth.authenticators :
                  multiAuth.authenticators[n] = IF n = "hmac" THEN hmacAuth ELSE bearerAuth

C11_Witness ==
    /\ OffendingKeys = {"k1", "k2"}
    /\ ~hmacAuth.ok /\ ~bearerAuth.ok /\ ~multiAuth.ok
    /\ buildErr.hmac.key = "k1" /\ buildErr.bearer.key = "k2"
    /\ buildErr.multi.wrap = "can't create HMAC authenticator"
    /\ sent.kind = "raw"

\* what Verify of the authenticator behind the last REST call answers for the
\* request as it arrived
ArrivedErr ==
    IF res.op = "chi" /\ res.consulted = <<"hmac">> THEN HMACVerify(hmacAuth, Verified, res.at).err
    ELSE IF res.op = "chi" /\ res.consulted = <<"bearer">> THEN BearerVerify(bearerAuth, Verified).err
    ELSE LET o == CHOOSE o \in Orders(DOMAIN multiAuth.authenticators) : TRUE
         IN  MultiVerify(multiAuth.authenticators, Verified, res.at, o).err

\* C12: a secured REST handler runs its ApiServer operation only after Verify
\* returned nil; when Verify returns an error the answer is 401, no operation
\* runs and the account repository and the filesystem are as before; a
\* WithAuthChi middleware invokes the next handler iff Verify returned nil.
C12_VerifyBeforeBusiness ==
    /\ res.op \in RestHandlers =>
          /\ res.err = ArrivedErr
          /\ res.ran => ArrivedErr = Nil
          /\ ArrivedErr # Nil => res.status = StatusUnauthorized /\ ~res.ran /\ repo = res.repo0
          /\ ~res.ran => repo = res.repo0
    /\ res.op = "chi" =>
          /\ res.ran = (ArrivedErr = Nil)
          /\ ArrivedErr # Nil => res.status = StatusUnauthorized
          /\ repo = res.repo0

C12_Witness ==
    /\ res.op = "DeleteUser"
    /\ res.repo0.users = {"bob"}
    /\ res.err = ErrBadSignature
    /\ res.status = StatusUnauthorized
    /\ repo.users = {"bob"}

\* the reasons Verify gives for rejecting a request
AuthErrors ==
    {ErrMissingHeaders, ErrUnknownKey, ErrInvalidScheme, ErrBadTimestamp, ErrWindow,
     ErrBodyRead, ErrBodyHash, ErrSigEncoding, ErrBadSignature, ErrNotVerified,
     ErrMissingAuthz, ErrNotSupported}

\* C13: the answer to a request that fails authentication (status and body)
\* is the same whatever the reason of the failure: it is the answer the same
\* entry point gives for every other reason.
C13_UniformUnauthorized ==
    (res.op \in RestHandlers \cup {"chi"} /\ res.err # Nil) =>
        /\ res.status = StatusUnauthorized
        /\ \A e \in AuthErrors :
              IF res.op = "chi" THEN res.msg = "unauthorized"
              ELSE writeAuthError(e) = [status |-> res.status, msg |-> res.msg]

\* what a call returns when it is the only one running: the authenticators as
\* the constructors built them, the request the call was given, one clock
Alone(c) ==
    CASE c.kind = "hmac" -> HMACVerify(NewHMACAuthenticator(cfg), c.r, c.clock)
      [] c.kind = "bearer" -> BearerVerify(NewBearerAuthenticator(cfg), c.r)
      [] OTHER -> [err |-> MultiVerify(MultiAuthenticators(cfg), c.r, c.clock, c.order).err,
                   body |-> MultiVerify(MultiAuthenticators(cfg), c.r, c.clock, c.order).body]

AloneSupports(c) ==
    CASE c.kind = "hmac" -> HMACSupports(c.r)
      [] c.kind = "bearer" -> BearerSupports(c.r)
      [] OTHER -> MultiSupports(MultiAuthenticators(cfg), c.r)

\* C14: the secrets maps, the window and the authenticator set stay as the
\* constructors built them whatever Verify and Supports calls run, and every
\* call that runs interleaved with others on its own request returns what it
\* returns when run alone.
C14_ImmutableAndIndependent ==
    /\ hmacAuth = NewHMACAuthenticator(cfg)
    /\ bearerAuth = NewBearerAuthenticator(cfg)
    /\ multiAuth.ok => multiAuth.authenticators = MultiAuthenticators(cfg)
    /\ \A w \in Workers :
          calls[w].pc = "done" =>
              IF calls[w].op = "Supports"
              THEN calls[w].supports = AloneSupports(calls[w])
              ELSE /\ calls[w].err = Alone(calls[w]).err
                   /\ calls[w].body = Alone(calls[w]).body

C14_Witness ==
    /\ calls[1].pc = "done" /\ calls[1].op = "Verify" /\ calls[1].kind = "hmac"
    /\ calls[1].err = Nil
    /\ calls[2].pc = "check" /\ calls[2].kind = "multi" /\ calls[2].inner = "hmac"
    /\ calls[2].r.apiKey = calls[1].r.apiKey
    /\ calls[2].r # calls[1].r

\* the three crypt-class algorithms, the four raw-class ones
CryptAlgos == {AlgoCryptMD5, AlgoCryptSHA256, AlgoCryptSHA512}
RawAlgos == {AlgoRawMD5, AlgoRawSHA1, AlgoRawSHA256, AlgoRawSHA512}

\* the rounds and the salt length a Hash call works with
UsedRounds == OrDefault(hasher.rounds, DefaultRounds)
UsedSaltLen == OrDefault(hasher.saltLen, DefaultSaltLen)

\* C15: for a crypt-class algorithm and valid parameters, the hash of p
\* verifies against p, and two Hash calls with the same plaintext and
\* parameters whose salts differ return different hashes.
C15_CryptRoundTripAndSalted ==
    /\ (/\ hasher.call = "Verify" /\ hasher.alg \in CryptAlgos /\ hasher.h1.err = Nil
        /\ hasher.stored = hasher.h1.hash /\ hasher.attempt = hasher.plain)
          => (hasher.v.verified /\ hasher.v.err = Nil)
    /\ (/\ hasher.call = "HashAgain" /\ hasher.alg \in CryptAlgos
        /\ hasher.h1.err = Nil /\ hasher.h2.err = Nil
        /\ hasher.h1.salt # hasher.h2.salt)
          => hasher.h1.hash # hasher.h2.hash

\* C16: for a crypt-class algorithm, Hash returns $<algId>$rounds=<N>$<salt>$<digest>
\* with algId 1, 5 or 6, N the requested or default rounds and salt exactly the
\* L generated characters, each of the alphabet ./0-9A-Za-z.
C16_CryptFormat ==
    (hasher.call = "Hash" /\ hasher.alg \in CryptAlgos /\ hasher.h1.err = Nil) =>
        LET toks == Split(hasher.h1.hash, "$")
        IN  /\ Len(toks) = 5
            /\ toks[1] = <<>>
            /\ toks[2] = (IF hasher.alg = AlgoCryptMD5 THEN <<"1">>
                          ELSE IF hasher.alg = AlgoCryptSHA256 THEN <<"5">> ELSE <<"6">>)
            /\ toks[3] = roundsTag \o Itoa(UsedRounds)
            /\ toks[4] = hasher.h1.salt
            /\ Len(toks[4]) = UsedSaltLen
            /\ \A i \in 1..Len(toks[4]) : \E j \in 1..Len(cryptAlphabet) :
                  cryptAlphabet[j] = toks[4][i]
            /\ toks[5] # <<>>

\* lowercase hexadecimal text of exactly n characters
IsLowerHex(s, n) ==
    /\ Len(s) = n
    /\ \A i \in 1..Len(s) :
          s[i] \in {"0", "1", "2", "3", "4", "5", "6", "7", "8", "9",
                    "a", "b", "c", "d", "e", "f"}

\* C17: for a raw-class algorithm Hash succeeds whatever rounds and salt
\* length it is given (nil, in range, out of range), does not read the
\* random source, and two calls with the same plaintext return the same
\* digest, lowercase hex of the algorithm's length.
C17_RawHashPure ==
    /\ (hasher.call \in {"Hash", "HashAgain"} /\ hasher.alg \in RawAlgos) =>
          /\ hasher.h1.err = Nil
          /\ ~hasher.h1.read
          /\ hasher.h1.salt = <<>>
          /\ IsLowerHex(hasher.h1.hash, resolveHash(hasher.alg))
          /\ \A rr \in Rngs, rounds \in RoundsArgs, saltLen \in SaltLenArgs :
                Hash(rr, hasher.plain, hasher.alg, rounds, saltLen) = hasher.h1
    /\ (hasher.call = "HashAgain" /\ hasher.alg \in RawAlgos) =>
          /\ hasher.h2.err = Nil
          /\ ~hasher.h2.read
          /\ hasher.h2.hash = hasher.h1.hash

C17_Witness ==
    /\ hasher.call = "HashAgain"
    /\ hasher.alg = AlgoRawSHA1
    /\ hasher.rounds = <<MaxRounds + 1>>
    /\ hasher.saltLen = <<0>>
    /\ hasher.rr1.fail /\ ~hasher.rr2.fail
    /\ hasher.plain = <<"p">>
    /\ hasher.h2.hash = hasher.h1.hash
    /\ Len(hasher.h1.hash) = HexLenSHA1

\* the plaintext reproduces the stored digest: hashing it the way the stored
\* text says (its algorithm, its rounds, its salt) gives the stored text,
\* letter case of a hex digest apart
Reproduces(stored, attempt, alg) ==
    IF alg \in CryptAlgos
    THEN /\ CrypterGenerate(resolveCrypter(alg), attempt, stored).err = Nil
         /\ CrypterGenerate(resolveCrypter(alg), attempt, stored).hash = stored
    ELSE ToLower(stored) = HexSum(attempt, resolveHash(alg))

AnyCaseHex(s, n) ==
    /\ Len(s) = n
    /\ \A i \in 1..Len(s) :
          s[i] \in {"0", "1", "2", "3", "4", "5", "6", "7", "8", "9",
                    "a", "b", "c", "d", "e", "f", "A", "B", "C", "D", "E", "F"}

\* the classification by shape: the three prefixes first, then the four
\* hex lengths, anything else is unsupported
Classify(t) ==
    CASE StrHasPrefix(t, <<"$", "6", "$">>) -> [alg |-> AlgoCryptSHA512, err |-> Nil]
      [] StrHasPrefix(t, <<"$", "5", "$">>) -> [alg |-> AlgoCryptSHA256, err |-> Nil]
      [] StrHasPrefix(t, <<"$", "1", "$">>) -> [alg |-> AlgoCryptMD5, err |-> Nil]
      [] t # <<>> /\ t[1] # "$" /\ AnyCaseHex(t, HexLenMD5) -> [alg |-> AlgoRawMD5, err |-> Nil]
      [] t # <<>> /\ t[1] # "$" /\ AnyCaseHex(t, HexLenSHA1) -> [alg |-> AlgoRawSHA1, err |-> Nil]
      [] t # <<>> /\ t[1] # "$" /\ AnyCaseHex(t, HexLenSHA256) ->
            [alg |-> AlgoRawSHA256, err |-> Nil]
      [] t # <<>> /\ t[1] # "$" /\ AnyCaseHex(t, HexLenSHA512) ->
            [alg |-> AlgoRawSHA512, err |-> Nil]
      [] OTHER -> [alg |-> NoAlgo, err |-> ErrUnsupportedAlgorithm]

Detected == [alg |-> hasher.v.alg, err |-> hasher.v.err]

\* C19 as stated: DetectHashAlgo classifies the exact stored string by its
\* prefix ($6$, $5$, $1$), else by its being 32, 40, 64 or 128 hex
\* characters in any letter case, and answers unsupported for every other
\* string.
C19_DetectExactString ==
    hasher.call = "Detect" => Detected = Classify(hasher.stored)

\* C19: DetectHashAlgo classifies the stored string with the white space
\* around it removed: by its prefix ($6$, $5$, $1$), else by its being 32,
\* 40, 64 or 128 hex characters in any letter case; it answers unsupported
\* for every other string, and always gives an answer.
C19_DetectTrimmedString ==
    hasher.call = "Detect" =>
        /\ Detected = Classify(TrimSpace(hasher.stored))
        /\ (Detected.err = Nil) = (Detected.alg \in SupportedAlgorithms)
        /\ Detected.err \in {Nil, ErrUnsupportedAlgorithm}

\* a raw digest with spaces around it is classified as raw
C19_Witness ==
    /\ hasher.call = "Detect"
    /\ hasher.alg = AlgoRawSHA256
    /\ hasher.stored = <<" ">> \o hasher.h1.hash \o <<" ">>
    /\ Detected = [alg |-> AlgoRawSHA256, err |-> Nil]

\* C20: for each of the seven supported algorithms, every plaintext and valid
\* rounds and salt length, Hash returns a hash that DetectHashAlgo classifies
\* as the algorithm it was made with, and IsCrypt is true exactly for the
\* three algorithms whose hashes begin with $.
C20_DetectAgreesWithHash ==
    /\ \A a \in SupportedAlgorithms : IsCrypt(a) = (a \in CryptAlgos)
    /\ (/\ hasher.call \in {"Hash", "Detect"}
        /\ hasher.alg \in SupportedAlgorithms
        /\ validateParams(UsedRounds, UsedSaltLen) = Nil
        /\ ~hasher.rr1.fail) =>
          /\ hasher.h1.err = Nil
          /\ DetectHashAlgo(hasher.h1.hash) = [alg |-> hasher.alg, err |-> Nil]
          /\ IsCrypt(hasher.alg) = (hasher.h1.hash[1] = "$")
          /\ (hasher.call = "Detect" /\ hasher.stored = hasher.h1.hash) =>
                Detected = [alg |-> hasher.alg, err |-> Nil]

C20_Witness ==
    /\ hasher.call = "Detect"
    /\ hasher.alg = AlgoCryptSHA512
    /\ hasher.rounds = <<MaxRounds>>
    /\ hasher.saltLen = <<1>>
    /\ hasher.plain = <<"p">>
    /\ hasher.stored = hasher.h1.hash
    /\ hasher.h1.hash # <<>>
    /\ hasher.h1.hash[1] = "$"
    /\ Detected = [alg |-> AlgoCryptSHA512, err |-> Nil]

\* C21: for a crypt-class algorithm, Hash with rounds outside [1000, 1000000]
\* or salt length outside [1, 16] returns a validation error and no hash
\* without having read the random source (a failing source goes unnoticed);
\* rounds 1000 and 1000000 and salt lengths 1 and 16 are accepted.
C21_ValidationBeforeRandomness ==
    (hasher.call = "Hash" /\ hasher.alg \in CryptAlgos) =>
        /\ (\/ UsedRounds < MinRounds \/ UsedRounds > MaxRounds
            \/ UsedSaltLen < 1 \/ UsedSaltLen > MaxSaltLen) =>
              /\ hasher.h1.err \in {ErrRounds, ErrSaltLen}
              /\ hasher.h1.hash = <<>>
              /\ ~hasher.h1.read
        /\ (/\ UsedRounds \in {MinRounds, MaxRounds}
            /\ UsedSaltLen \in {1, MaxSaltLen}
            /\ ~hasher.rr1.fail) =>
              /\ hasher.h1.err = Nil
              /\ hasher.h1.hash # <<>>
              /\ hasher.h1.read

C21_Witness ==
    /\ hasher.call = "Hash"
    /\ hasher.alg = AlgoCryptSHA512
    /\ hasher.rounds = <<MinRounds - 1>>
    /\ hasher.saltLen = <<MaxSaltLen>>
    /\ hasher.rr1.fail
    /\ hasher.h1 = [NoHash EXCEPT !.err = ErrRounds]

\* two texts that differ at most in the letter case of hex digits
SameButCase(a, b) ==
    /\ Len(a) = Len(b)
    /\ \A i \in 1..Len(a) :
          \/ a[i] = b[i]
          \/ {a[i], b[i]} \in {{"a", "A"}, {"b", "B"}, {"c", "C"}, {"d", "D"}, {"e", "E"},
                                {"f", "F"}}

\* C22: for a raw algorithm and the hex digest h of p, Verify(h', p) says
\* verified for every h' that differs from h only in letter case, and not
\* verified for every h' classified as a raw digest that differs from h
\* otherwise.
C22_RawVerifyCaseInsensitive ==
    (/\ hasher.call = "Verify" /\ hasher.alg \in RawAlgos /\ hasher.h1.err = Nil
     /\ hasher.attempt = hasher.plain) =>
        /\ SameButCase(hasher.stored, hasher.h1.hash) =>
              hasher.v = [verified |-> TRUE, alg |-> hasher.alg, err |-> Nil]
        /\ (DetectHashAlgo(hasher.stored).alg \in RawAlgos
              /\ ~SameButCase(hasher.stored, hasher.h1.hash)) =>
              (~hasher.v.verified /\ hasher.v.err = Nil)

\* a digest with one letter in upper case verifies
C22_Witness ==
    /\ hasher.call = "Verify"
    /\ hasher.alg = AlgoRawMD5
    /\ hasher.plain = <<"p">>
    /\ hasher.attempt = <<"p">>
    /\ hasher.stored # hasher.h1.hash
    /\ Len(hasher.stored) = HexLenMD5
    /\ hasher.stored[1] = "A"
    /\ SubSeq(hasher.stored, 2, HexLenMD5) = SubSeq(hasher.h1.hash, 2, HexLenMD5)
    /\ hasher.v.verified

\* a classified digest with another first digit does not verify
C22_WitnessOtherDigit ==
    /\ hasher.call = "Verify"
    /\ hasher.alg = AlgoRawMD5
    /\ hasher.attempt = hasher.plain
    /\ Len(hasher.stored) = HexLenMD5
    /\ hasher.stored[1] = "1"
    /\ hasher.v = [verified |-> FALSE, alg |-> AlgoRawMD5, err |-> Nil]

\* the stored users of a name (none or one), and whether a stored user is
\* disabled or past its expiration at a time
Stored(r, name) == {u \in r.users : u.Username = name}
LockedAt(u, t) == u.Disabled \/ (u.Expiration # <<>> /\ u.Expiration[1] < t)

\* C23: AuthzAuthUser returns nil only if the user exists, is neither
\* disabled nor past its expiration and the password verifies against the
\* stored hash; an empty username or password gives ErrInvalidInput; with
\* both given, a disabled or expired user gives ErrLockedUser and an unknown
\* user gives ErrInvalidCredentials, as a wrong password does.
C23_AuthzAuthUserOutcomes ==
    api.op = "AuthzAuthUser" =>
        /\ api.err = Nil =>
              \E u \in Stored(accounts, api.name) :
                  /\ ~LockedAt(u, api.at)
                  /\ HasherVerify(u.Password, api.password).verified
        /\ (api.name = "" \/ api.password = <<>>) => api.err = ErrInvalidInput
        /\ (api.name # "" /\ api.password # <<>>) =>
              /\ (\E u \in Stored(accounts, api.name) : LockedAt(u, api.at)) =>
                    api.err = ErrLockedUser
              /\ Stored(accounts, api.name) = {} => api.err = ErrInvalidCredentials
              /\ (\E u \in Stored(accounts, api.name) :
                      /\ ~LockedAt(u, api.at)
                      /\ HasherVerify(u.Password, api.password).err = Nil
                      /\ ~HasherVerify(u.Password, api.password).verified) =>
                    api.err = ErrInvalidCredentials

\* the stored groups of a name (none or one)
StoredGroup(r, name) == {g \in r.groups : g.Groupname = name}

\* a stored user has the attributes a request asks for, the id aside
AsRequested(u, ru) ==
    /\ u.Groupname = ru.Groupname /\ u.Home = ru.Home
    /\ u.Disabled = ru.Disabled /\ u.Expiration = ru.Expiration
    /\ IF ru.PasswordIsHash THEN u.Password = ru.Password
       ELSE HasherVerify(u.Password, ru.Password).verified

C24_WitnessConflict ==
    /\ api.op = "EnsureGroup"
    /\ api.err = ErrConflict
    /\ \E g \in StoredGroup(accounts, api.name) :
          /\ g.GID # api.rg.GID
          /\ g \in StoredGroup(api.before, api.name)

C25_WitnessLogin ==
    /\ api.op = "AuthzAuthUser"
    /\ api.password = OriginalPassword
    /\ api.err = Nil
    /\ api.at = MaxNow
    /\ \E u \in Stored(accounts, api.name) : u.Expiration = <<>> /\ ~u.Disabled

\* C26: PrepareGroupHome, PrepareUserHome, CreateUserTopDir and
\* DeleteUserTopDir either return an error or touch only directories inside
\* HomesBaseDir: no call creates, chowns, chmods or removes a directory
\* outside HomesBaseDir, whatever the group home, user home and top
\* directory are.
C26_TouchedInsideBase ==
    \A p \in fs.touched : Within(p, HomesBaseDir)

\* what the checks of HMAC Verify find in the request as it was at the call:
\* the headers are there, the key is configured, the scheme is "HMAC ", the
\* timestamp parses, the skew is within the window, the body can be read, its
\* digest is the announced one, the signature is hex, the signature is right
HeadersPresent ==
    req.apiKey # "" /\ req.authz # NoAuthz /\ req.ts.kind # "none" /\ req.bodySHA.kind # "none"
KeyKnown == req.apiKey \in DOMAIN hmacAuth.accessSecrets
SchemeIsHmac == req.authz.prefix = "HMAC "
TimestampParses == req.ts.kind = "rfc3339"
InsideWindow == ~WindowExceeded(res.at - req.ts.t, hmacAuth.window)
BodyReadable == ~ReadAll(res.before).err
BodyHashMatches == EqualFold(req.bodySHA, Sha256Hex(ReadAll(res.before).b))
SignatureDecodes == ~DecodeSig(req.authz.cred).err
SignatureMatches ==
    DecodeSig(req.authz.cred).mac
        = HmacSha256(hmacAuth.accessSecrets[req.apiKey],
                     Canonical(req, Sha256Hex(ReadAll(res.before).b)))

\* the checks from the timestamp on, in the order of the claim and of the code
FromTimestampOn ==
    IF ~TimestampParses THEN ErrBadTimestamp
    ELSE IF ~InsideWindow THEN ErrWindow
    ELSE IF ~BodyReadable THEN ErrBodyRead
    ELSE IF ~BodyHashMatches THEN ErrBodyHash
    ELSE IF ~SignatureDecodes THEN ErrSigEncoding
    ELSE IF ~SignatureMatches THEN ErrBadSignature
    ELSE Nil

BeforeBodyErrors ==
    {ErrMissingHeaders, ErrUnknownKey, ErrInvalidScheme, ErrBadTimestamp, ErrWindow}

\* C28 as stated: HMAC Verify returns the failure of the first failing check
\* in the order required headers and HMAC scheme, key lookup, timestamp parse,
\* window, body read and body hash, signature decoding, signature comparison.
C28_SchemeBeforeKeyLookup ==
    res.op = "hmac" =>
        res.err = IF ~HeadersPresent THEN ErrMissingHeaders
                  ELSE IF ~SchemeIsHmac THEN ErrInvalidScheme
                  ELSE IF ~KeyKnown THEN ErrUnknownKey
                  ELSE FromTimestampOn

\* C28 amended: HMAC Verify returns the failure of the first failing check in
\* the order required headers, key lookup, HMAC scheme, timestamp parse,
\* window, body read and body hash, signature decoding, signature comparison;
\* the body is left as it was when a check before the body read fails, and
\* the signature is examined only after the body hash matched.
C28_KeyLookupBeforeScheme ==
    res.op = "hmac" =>
        /\ res.err = IF ~HeadersPresent THEN ErrMissingHeaders
                     ELSE IF ~KeyKnown THEN ErrUnknownKey
                     ELSE IF ~SchemeIsHmac THEN ErrInvalidScheme
                     ELSE FromTimestampOn
        /\ (res.err \in BeforeBodyErrors /\ ~down.done) => req.body = res.before
        /\ res.err \in {ErrSigEncoding, ErrBadSignature, Nil} =>
              BodyReadable /\ BodyHashMatches

\* an unknown key with a scheme that is not "HMAC ": the key lookup answers
C28_Witness ==
    /\ res.op = "hmac"
    /\ HeadersPresent
    /\ ~KeyKnown
    /\ ~SchemeIsHmac
    /\ res.err = ErrUnknownKey

\* a body that cannot be read is not touched when the window check fails
C28_WitnessBodyUntouched ==
    /\ res.op = "hmac"
    /\ res.err = ErrWindow
    /\ ~BodyReadable
    /\ ~down.done
    /\ req.body = res.before

\* C29: the repository never holds more than EntitiesLimit groups nor more
\* than EntitiesLimit users, and never two entries of the same name, in any
\* state reachable by any interleaving of concurrent AddGroup, AddUser,
\* UpdateGroup, UpdateUser, DeleteGroup and DeleteUser calls.
C29_LimitsAndUniqueNames ==
    /\ Cardinality(accounts.groups) <= EntitiesLimit
    /\ Cardinality(accounts.users) <= EntitiesLimit
    /\ \A g, h \in accounts.groups : g.Groupname = h.Groupname => g = h
    /\ \A u, v \in accounts.users : u.Username = v.Username => u = v

\* C30: when EnsureUser creates a user whose requested UID is 0, the UID it
\* assigns via GetNextUID is at least MinUID and is not the UID of any user
\* stored at the call, after any sequence of EnsureUser calls (with explicit
\* or automatic UIDs) and DeleteUser calls.
C30_AssignedUidFresh ==
    (api.op = "EnsureUser" /\ api.ru.UID = 0 /\ Stored(api.before, api.name) = {}) =>
        \A u \in Stored(accounts, api.name) :
            /\ u.UID >= MinUID
            /\ \A v \in api.before.users : v.UID # u.UID
====
